---- MODULE Spec2Model ----
(***************************************************************************)
(* Ticket routing broker: the Redis-backed priority queue (app/broker.py), *)
(* the circuit breaker of the model router (app/ml/model_router.py), the   *)
(* sliding-window deduplication engine (app/services/dedup_service.py),    *)
(* the agent registry and the routing optimizer                            *)
(* (app/services/agent_registry.py, routing_optimizer.py), the worker's    *)
(* process_ticket job (app/worker.py) with its high-urgency webhook        *)
(* (app/webhook.py), and the API's handlers (app/main.py).                 *)
(*                                                                         *)
(* Redis values that may be missing are modelled as sets of at most one    *)
(* element: None is the empty set, Some(v) is {v}.                         *)
(***************************************************************************)
EXTENDS Integers, Sequences, FiniteSets, TLC

VARIABLES
    clock,          \* time.time(), in seconds
    zset,           \* ticket_queue:processed, a sorted set: member -> score
    popLog,         \* history: <<consumer, ticket>> per pop_next hit since the last add_processed
    qret,           \* history: the last queue call, [op, by, result]
    cb_state,       \* circuit_breaker:state
    cb_opened_at,   \* circuit_breaker:opened_at
    cb_probes,      \* circuit_breaker:probes
    wk,             \* per worker: the locals of its score_urgency call
    openedWhen,     \* history: the time (the writer's now) of the last write of state=open
    dd_window,      \* dedup:window, a sorted set: ticket_id -> time of recording
    dd_meta,        \* dedup:meta:{ticket_id}: ticket_id -> [embedding, expires]
    incident_next_id,   \* incident:next_id
    incident,       \* incident:{id}, a hash: id -> [root_ticket_id, status]
    incident_tickets,   \* incident_tickets:{id}, a set: id -> ticket ids
    ticket_incident,    \* ticket_incident:{ticket_id}: ticket_id -> incident id
    recorded,       \* history: ticket_id -> [at, embedding] of its last recording
    dk,             \* per worker: the locals of its check_and_record call
    agent,          \* agent:{id}, the agent's JSON: id -> [status, current_load, ...]
    agents_online,  \* agents:online, a set of agent ids
    ticket_assignee,    \* ticket_assignee:{ticket_id}: ticket_id -> agent id
    ak,             \* per worker: the locals of the rest of its process_ticket job
    ck,             \* per consumer: the locals of its GET /tickets/next request
    xk,             \* the locals of the operator's request (queue clear, repairs)
    events,         \* activity._events, the ring of recent events
    arq,            \* the ARQ job queue: [pending, accepted, taken]
    webhook,        \* config.WEBHOOK_URL, and history: the high-urgency POSTs sent
    pubsub          \* the store's connection, the ticket_activity channel and its subscriber

qvars == <<zset, popLog, qret>>
bvars == <<cb_state, cb_opened_at, cb_probes, wk, openedWhen>>
dstore == <<dd_window, dd_meta, incident_next_id, incident, incident_tickets, ticket_incident>>
dvars == <<dd_window, dd_meta, incident_next_id, incident, incident_tickets, ticket_incident,
           recorded, dk>>
avars == <<agent, agents_online, ticket_assignee, ak>>
hvars == <<ck, xk, events, arq, webhook, pubsub>>
vars == <<clock, zset, popLog, qret, cb_state, cb_opened_at, cb_probes, wk, openedWhen,
          dd_window, dd_meta, incident_next_id, incident, incident_tickets, ticket_incident,
          recorded, dk, agent, agents_online, ticket_assignee, ak, ck, xk, events, arq, webhook, pubsub>>

None == {}
Some(v) == {v}
TheValue(o) == CHOOSE v \in o : TRUE

(***************************************************************************)
(* Bounds of the queue model.                                              *)
(***************************************************************************)
MaxTicket == 2      \* ticket ids 1..MaxTicket (ordered as their strings are)
MaxSubject == 0     \* subjects 0..MaxSubject: the other fields of a ticket
MaxScore == 1       \* urgency scores 0..MaxScore of the queued tickets, in hundredths
MaxQueue == 3       \* add_processed is not offered beyond this queue size
NumConsumers == 2   \* API consumers calling GET /tickets/next

TicketIds == 1..MaxTicket
Subjects == 0..MaxSubject
QScores == 0..MaxScore
Consumers == 1..NumConsumers

\* app/models.py RoutedTicket: the fields that tell two routed tickets apart.
\* is_urgent and priority_score are functions of urgency_score; body,
\* customer_id and category vary like subject does.
RoutedTicket == [ticket_id : TicketIds, subject : Subjects, urgency_score : QScores]

\* json.dumps(routed.model_dump()): the fields in declaration order.
json_dumps(routed) == <<routed.ticket_id, routed.subject, routed.urgency_score>>

\* RoutedTicket.model_validate(json.loads(member))
json_loads(member) ==
    [ticket_id |-> member[1], subject |-> member[2], urgency_score |-> member[3]]

\* Redis orders members of equal score by their bytes: the JSON text, field by field.
LexLess(a, b) ==
    \/ a[1] < b[1]
    \/ a[1] = b[1] /\ a[2] < b[2]
    \/ a[1] = b[1] /\ a[2] = b[2] /\ a[3] < b[3]

\* The sorted set's order: by score, then by member.
ZLess(z, a, b) == z[a] < z[b] \/ (z[a] = z[b] /\ LexLess(a, b))

\* ZADD key {member: score}: insert, or overwrite the score of a present member.
ZADD(z, member, score) ==
    [m \in DOMAIN z \cup {member} |-> IF m = member THEN score ELSE z[m]]

ZLast(z) == CHOOSE m \in DOMAIN z : \A o \in DOMAIN z \ {m} : ZLess(z, o, m)

ZFirst(z) == CHOOSE m \in DOMAIN z : \A o \in DOMAIN z \ {m} : ZLess(z, m, o)

ZREM(z, member) == [m \in DOMAIN z \ {member} |-> z[m]]

\* Mutants of ZPOPMAX: popping the minimum; reading the maximum without removing it.
ZPOPMAX_min(z) ==
    IF DOMAIN z = {} THEN [popped |-> None, rest |-> z]
    ELSE [popped |-> Some(ZFirst(z)), rest |-> ZREM(z, ZFirst(z))]

ZPOPMAX_keep(z) ==
    IF DOMAIN z = {} THEN [popped |-> None, rest |-> z]
    ELSE [popped |-> Some(ZLast(z)), rest |-> z]

\* ZPOPMAX key count=1: one atomic command removing the last member of the order.
ZPOPMAX(z) ==
    IF DOMAIN z = {} THEN [popped |-> None, rest |-> z]
    ELSE [popped |-> Some(ZLast(z)), rest |-> ZREM(z, ZLast(z))]

\* broker.add_processed(routed): the ZADD and what the histories note of it
AddEffect(routed) ==
    /\ zset' = ZADD(zset, json_dumps(routed), routed.urgency_score)
    /\ popLog' = << >>
    /\ qret' = [op |-> "add_processed", by |-> 0, result |-> None]

\* broker.add_processed(routed)
add_processed(routed) ==
    /\ json_dumps(routed) \in DOMAIN zset \/ Cardinality(DOMAIN zset) < MaxQueue
    /\ AddEffect(routed)
    /\ UNCHANGED <<clock, bvars, dvars, avars, hvars>>

\* broker.pop_next(), called by consumer c: the ZPOPMAX and what the histories note of it
PopEffect(c) ==
    LET r == ZPOPMAX(zset) IN
    /\ zset' = r.rest
    /\ IF r.popped = None
       THEN /\ qret' = [op |-> "pop_next", by |-> c, result |-> None]
            /\ popLog' = popLog
       ELSE /\ qret' = [op |-> "pop_next", by |-> c,
                        result |-> Some(json_loads(TheValue(r.popped)))]
            /\ popLog' = Append(popLog, <<c, json_loads(TheValue(r.popped))>>)

\* broker.pop_next(), called by consumer c
pop_next(c) ==
    /\ PopEffect(c)
    /\ UNCHANGED <<clock, bvars, dvars, avars, hvars>>

\* The members of a sorted set in its order, lowest first
RECURSIVE ZAscending(_)
ZAscending(z) ==
    IF DOMAIN z = {} THEN << >> ELSE <<ZFirst(z)>> \o ZAscending(ZREM(z, ZFirst(z)))

\* An index of ZRANGE as a position: negative ones count from the end
ZIndex(z, i) == IF i < 0 THEN Cardinality(DOMAIN z) + i + 1 ELSE i + 1

\* Mutant of ZRANGE: the indexes count from the start.
ZRANGE_fromStart(z, start, stop) ==
    IF DOMAIN z = {} THEN << >> ELSE <<ZAscending(z)[1]>>

\* ZRANGE key start stop: the members at the positions start..stop of the order
ZRANGE(z, start, stop) ==
    LET from == IF ZIndex(z, start) < 1 THEN 1 ELSE ZIndex(z, start)
        to == IF ZIndex(z, stop) > Cardinality(DOMAIN z)
              THEN Cardinality(DOMAIN z) ELSE ZIndex(z, stop)
    IN  SubSeq(ZAscending(z), from, to)

\* broker.peek_next(), called by consumer c: members = r.zrange(key, -1, -1)
peek_next(c) ==
    /\ LET members == ZRANGE(zset, -1, -1) IN
       qret' = [op |-> "peek_next", by |-> c,
                result |-> IF members = << >> THEN None
                           ELSE Some(json_loads(members[1]))]
    /\ UNCHANGED <<clock, zset, popLog, bvars, dvars, avars, hvars>>

(***************************************************************************)
(* The model router's circuit breaker (app/ml/model_router.py).            *)
(* Scores are in hundredths (0.85 is 85); a call that let an exception     *)
(* escape to its caller would return -1.                                   *)
(***************************************************************************)
TRANSFORMER_LATENCY_MS == 500
CIRCUIT_COOLDOWN_SECONDS == 60
CIRCUIT_HALF_OPEN_PROBES == 3

NumWorkers == 2     \* worker processes calling score_urgency
MaxCooldowns == 1   \* the clock runs over this many cooldown periods

Workers == 1..NumWorkers

\* time.time() is Unix time: longer after 0 than any configured interval.
Epoch == 10 * CIRCUIT_COOLDOWN_SECONDS

\* The instants the clock takes: the multiples of the cooldown, and a second
\* before and after each.
CooldownInstants == {Epoch + k * CIRCUIT_COOLDOWN_SECONDS : k \in 0..MaxCooldowns}

BreakerInstants == {t + d : t \in CooldownInstants, d \in {-1, 0, 1}} \ {Epoch - 1}

\* subject + " " + body of a ticket: blank, with an urgency keyword, without one.
Texts == {"", "login broken asap", "general question"}

\* classifier._is_urgent(text): URGENCY_PATTERNS finds a keyword.
_is_urgent(text) == text = "login broken asap"

\* not text or not text.strip()
IsBlank(text) == text = ""

\* model_router._baseline_urgency(text)
_baseline_urgency(text) ==
    IF IsBlank(text) THEN 0
    ELSE IF _is_urgent(text) THEN 85 ELSE 25

\* sentiment.compute_urgency_score(text) when it returns: 0.0 for blank text,
\* else P(negative) of the text, clamped to [0, 1]: a fixed function of the text.
NegativeProb(text) == IF _is_urgent(text) THEN 97 ELSE 12

compute_urgency_score(text) ==
    IF IsBlank(text) THEN 0
    ELSE IF NegativeProb(text) > 100 THEN 100
    ELSE IF NegativeProb(text) < 0 THEN 0 ELSE NegativeProb(text)

\* What one timed invocation of the transformer can do: raise, or return its
\* score after latency_ms. Blank text returns before the model is loaded, so
\* it cannot raise.
_transformer_urgency(text) ==
    {[err |-> FALSE, S |-> compute_urgency_score(text), latency_ms |-> l] :
        l \in {TRANSFORMER_LATENCY_MS, TRANSFORMER_LATENCY_MS + 1}}
    \cup (IF IsBlank(text) THEN {} ELSE {[err |-> TRUE, S |-> 0, latency_ms |-> 0]})

\* Mutant of TooSlow: the cap itself already counts as too slow.
TooSlow_atCap(latency_ms) == latency_ms >= TRANSFORMER_LATENCY_MS

\* if latency_ms > TRANSFORMER_LATENCY_MS
TooSlow(latency_ms) == latency_ms > TRANSFORMER_LATENCY_MS

\* Mutant of CooldownRunning: the cooldown never ends.
CooldownRunning_always(now, opened_at) == TRUE

\* Mutant of CooldownRunning: the cooldown is over a second early.
CooldownRunning_short(now, opened_at) == now - opened_at < CIRCUIT_COOLDOWN_SECONDS - 1

\* if now - opened_at < CIRCUIT_COOLDOWN_SECONDS
CooldownRunning(now, opened_at) == now - opened_at < CIRCUIT_COOLDOWN_SECONDS

\* Mutant of ProbesUsedUp: closes one probe early.
ProbesUsedUp_early(probes) == probes + 1 >= CIRCUIT_HALF_OPEN_PROBES

\* if probes >= CIRCUIT_HALF_OPEN_PROBES
ProbesUsedUp(probes) == probes >= CIRCUIT_HALF_OPEN_PROBES

\* Mutant of AfterFailure: the except clause re-raises.
AfterFailure_raise(text, out) == IF out.err THEN -1 ELSE _baseline_urgency(text)

\* What the call returns once the invocation raised or was too slow.
AfterFailure(text, out) == _baseline_urgency(text)

\* The locals of a call; after is history: openedWhen as the call's first read found it.
IdleCall ==
    [pc |-> "idle", text |-> "", rd |-> "closed", state |-> "closed", opened_at |-> 0,
     probes |-> 0, now |-> 0, out |-> None, writes |-> << >>, ret |-> None,
     after |-> None]

\* One worker's step: its locals change, the others' stay.
Local(w, call) == wk' = [wk EXCEPT ![w] = call]

Wrote(w, key, value) == Append(wk[w].writes, <<key, value>>)

\* score_urgency(text) is entered: r = _redis()
Start(w, texts) ==
    /\ wk[w].pc \in {"idle", "done"}
    /\ \E text \in texts : Local(w, [IdleCall EXCEPT !.pc = "get_state", !.text = text])
    /\ UNCHANGED <<cb_state, cb_opened_at, cb_probes, openedWhen, clock, qvars, dvars, avars, hvars>>

\* _get_state: state = r.get(CIRCUIT_STATE_KEY) or "closed"
GetState(w) ==
    /\ wk[w].pc = "get_state"
    /\ LET s == IF cb_state = None THEN "closed" ELSE TheValue(cb_state) IN
       Local(w, [wk[w] EXCEPT !.pc = "get_opened_at", !.rd = s, !.state = s,
                    !.after = openedWhen])
    /\ UNCHANGED <<cb_state, cb_opened_at, cb_probes, openedWhen, clock, qvars, dvars, avars, hvars>>

\* _get_state: opened = float(r.get(CIRCUIT_OPENED_AT_KEY) or 0)
GetOpenedAt(w) ==
    /\ wk[w].pc = "get_opened_at"
    /\ Local(w, [wk[w] EXCEPT !.pc = "get_probes",
                 !.opened_at = IF cb_opened_at = None THEN 0 ELSE TheValue(cb_opened_at)])
    /\ UNCHANGED <<cb_state, cb_opened_at, cb_probes, openedWhen, clock, qvars, dvars, avars, hvars>>

\* _get_state: probes = int(r.get(CIRCUIT_PROBES_KEY) or 0)
GetProbes(w) ==
    /\ wk[w].pc = "get_probes"
    /\ Local(w, [wk[w] EXCEPT !.pc = "time",
                 !.probes = IF cb_probes = None THEN 0 ELSE TheValue(cb_probes)])
    /\ UNCHANGED <<cb_state, cb_opened_at, cb_probes, openedWhen, clock, qvars, dvars, avars, hvars>>

\* Where the half-open branch goes with the local probes count.
HalfOpenBranch(probes) == IF ProbesUsedUp(probes) THEN "set_closed" ELSE "probe"

\* now = time.time(), then the branch on the state that was read
ReadTime(w) ==
    /\ wk[w].pc = "time"
    /\ LET c == [wk[w] EXCEPT !.now = clock] IN
       IF c.state = "open"
       THEN IF CooldownRunning(clock, c.opened_at)
            THEN Local(w, [c EXCEPT !.pc = "done", !.ret = Some(_baseline_urgency(c.text))])
            ELSE Local(w, [c EXCEPT !.pc = "set_half_open"])
       ELSE IF c.state = "half_open"
            THEN Local(w, [c EXCEPT !.pc = HalfOpenBranch(c.probes)])
            ELSE Local(w, [c EXCEPT !.pc = "invoke"])
    /\ UNCHANGED <<cb_state, cb_opened_at, cb_probes, openedWhen, clock, qvars, dvars, avars, hvars>>

\* r.set(CIRCUIT_STATE_KEY, "half_open")
SetHalfOpen(w) ==
    /\ wk[w].pc = "set_half_open"
    /\ cb_state' = Some("half_open")
    /\ Local(w, [wk[w] EXCEPT !.pc = "set_probes_0",
                 !.writes = Wrote(w, "state", Some("half_open"))])
    /\ UNCHANGED <<cb_opened_at, cb_probes, openedWhen, clock, qvars, dvars, avars, hvars>>

\* r.set(CIRCUIT_PROBES_KEY, "0"); state = HALF_OPEN; probes = 0
SetProbesZero(w) ==
    /\ wk[w].pc = "set_probes_0"
    /\ cb_probes' = Some(0)
    /\ Local(w, [wk[w] EXCEPT !.pc = HalfOpenBranch(0), !.state = "half_open", !.probes = 0,
                 !.writes = Wrote(w, "probes", Some(0))])
    /\ UNCHANGED <<cb_state, cb_opened_at, openedWhen, clock, qvars, dvars, avars, hvars>>

\* probes >= N: r.set(CIRCUIT_STATE_KEY, "closed")
SetClosed(w) ==
    /\ wk[w].pc = "set_closed"
    /\ cb_state' = Some("closed")
    /\ Local(w, [wk[w] EXCEPT !.pc = "closed_del_probes",
                 !.writes = Wrote(w, "state", Some("closed"))])
    /\ UNCHANGED <<cb_opened_at, cb_probes, openedWhen, clock, qvars, dvars, avars, hvars>>

\* r.delete(CIRCUIT_PROBES_KEY); state = CLOSED; falls through to the closed branch
ClosedDelProbes(w) ==
    /\ wk[w].pc = "closed_del_probes"
    /\ cb_probes' = None
    /\ Local(w, [wk[w] EXCEPT !.pc = "invoke", !.state = "closed",
                 !.writes = Wrote(w, "probes", None)])
    /\ UNCHANGED <<cb_state, cb_opened_at, openedWhen, clock, qvars, dvars, avars, hvars>>

\* half-open, probes < N: S = _transformer_urgency(text) under the timer
Probe(w) ==
    /\ wk[w].pc = "probe"
    /\ \E out \in _transformer_urgency(wk[w].text) :
          Local(w, [wk[w] EXCEPT !.out = Some(out),
                    !.pc = IF out.err \/ TooSlow(out.latency_ms)
                           THEN "probe_set_open" ELSE "probe_incr"])
    /\ UNCHANGED <<cb_state, cb_opened_at, cb_probes, openedWhen, clock, qvars, dvars, avars, hvars>>

\* Mutant of INCR: the key is set to 1.
INCR_reset(value) == 1

\* INCR key: a missing key counts as 0
INCR(value) == (IF value = None THEN 0 ELSE TheValue(value)) + 1

\* r.incr(CIRCUIT_PROBES_KEY); return S
ProbeIncr(w) ==
    /\ wk[w].pc = "probe_incr"
    /\ LET n == INCR(cb_probes) IN
       /\ cb_probes' = Some(n)
       /\ Local(w, [wk[w] EXCEPT !.pc = "done", !.ret = Some(TheValue(wk[w].out).S),
                    !.writes = Wrote(w, "probes", Some(n))])
    /\ UNCHANGED <<cb_state, cb_opened_at, openedWhen, clock, qvars, dvars, avars, hvars>>

\* failed probe: r.set(CIRCUIT_STATE_KEY, "open")
ProbeSetOpen(w) ==
    /\ wk[w].pc = "probe_set_open"
    /\ cb_state' = Some("open")
    /\ openedWhen' = Some(wk[w].now)
    /\ Local(w, [wk[w] EXCEPT !.pc = "probe_set_opened_at",
                 !.writes = Wrote(w, "state", Some("open"))])
    /\ UNCHANGED <<cb_opened_at, cb_probes, clock, qvars, dvars, avars, hvars>>

\* failed probe: r.set(CIRCUIT_OPENED_AT_KEY, str(now))
ProbeSetOpenedAt(w) ==
    /\ wk[w].pc = "probe_set_opened_at"
    /\ cb_opened_at' = Some(wk[w].now)
    /\ Local(w, [wk[w] EXCEPT !.pc = "probe_del_probes",
                 !.writes = Wrote(w, "opened_at", Some(wk[w].now))])
    /\ UNCHANGED <<cb_state, cb_probes, openedWhen, clock, qvars, dvars, avars, hvars>>

\* failed probe: r.delete(CIRCUIT_PROBES_KEY); return _baseline_urgency(text)
ProbeDelProbes(w) ==
    /\ wk[w].pc = "probe_del_probes"
    /\ cb_probes' = None
    /\ Local(w, [wk[w] EXCEPT !.pc = "done",
                 !.ret = Some(AfterFailure(wk[w].text, TheValue(wk[w].out))),
                 !.writes = Wrote(w, "probes", None)])
    /\ UNCHANGED <<cb_state, cb_opened_at, openedWhen, clock, qvars, dvars, avars, hvars>>

\* closed: S = _transformer_urgency(text) under the timer; return S when fast
Invoke(w) ==
    /\ wk[w].pc = "invoke"
    /\ \E out \in _transformer_urgency(wk[w].text) :
          IF out.err \/ TooSlow(out.latency_ms)
          THEN Local(w, [wk[w] EXCEPT !.out = Some(out), !.pc = "set_state"])
          ELSE Local(w, [wk[w] EXCEPT !.out = Some(out), !.pc = "done", !.ret = Some(out.S)])
    /\ UNCHANGED <<cb_state, cb_opened_at, cb_probes, openedWhen, clock, qvars, dvars, avars, hvars>>

\* _set_state(r, "open", now, 0): r.set(CIRCUIT_STATE_KEY, state)
SetStateState(w) ==
    /\ wk[w].pc = "set_state"
    /\ cb_state' = Some("open")
    /\ openedWhen' = Some(wk[w].now)
    /\ Local(w, [wk[w] EXCEPT !.pc = "set_state_opened_at",
                 !.writes = Wrote(w, "state", Some("open"))])
    /\ UNCHANGED <<cb_opened_at, cb_probes, clock, qvars, dvars, avars, hvars>>

\* _set_state: r.set(CIRCUIT_OPENED_AT_KEY, str(opened_at))
SetStateOpenedAt(w) ==
    /\ wk[w].pc = "set_state_opened_at"
    /\ cb_opened_at' = Some(wk[w].now)
    /\ Local(w, [wk[w] EXCEPT !.pc = "set_state_probes",
                 !.writes = Wrote(w, "opened_at", Some(wk[w].now))])
    /\ UNCHANGED <<cb_state, cb_probes, openedWhen, clock, qvars, dvars, avars, hvars>>

\* _set_state: probes == 0, so r.delete(CIRCUIT_PROBES_KEY); return _baseline_urgency(text)
SetStateProbes(w) ==
    /\ wk[w].pc = "set_state_probes"
    /\ cb_probes' = None
    /\ Local(w, [wk[w] EXCEPT !.pc = "done",
                 !.ret = Some(AfterFailure(wk[w].text, TheValue(wk[w].out))),
                 !.writes = Wrote(w, "probes", None)])
    /\ UNCHANGED <<cb_state, cb_opened_at, openedWhen, clock, qvars, dvars, avars, hvars>>

\* One step of worker w's score_urgency call.
CallStep(w) ==
    \/ GetState(w) \/ GetOpenedAt(w) \/ GetProbes(w) \/ ReadTime(w)
    \/ SetHalfOpen(w) \/ SetProbesZero(w) \/ SetClosed(w) \/ ClosedDelProbes(w)
    \/ Probe(w) \/ ProbeIncr(w) \/ ProbeSetOpen(w) \/ ProbeSetOpenedAt(w) \/ ProbeDelProbes(w)
    \/ Invoke(w) \/ SetStateState(w) \/ SetStateOpenedAt(w) \/ SetStateProbes(w)

\* No call is in progress.
Quiescent == \A w \in Workers : wk[w].pc \in {"idle", "done"}

\* Time passes: the clock moves on to a later one of the instants.
Tick(instants) ==
    /\ \E t \in instants : t > clock /\ clock' = t
    /\ UNCHANGED <<bvars, qvars, dvars, avars, hvars>>

BInit ==
    /\ cb_state = None
    /\ cb_opened_at = None
    /\ cb_probes = None
    /\ wk = [w \in Workers |-> IdleCall]
    /\ openedWhen = None

QInit ==
    /\ zset = << >>
    /\ popLog = << >>
    /\ qret = [op |-> "none", by |-> 0, result |-> None]

(***************************************************************************)
(* The deduplication engine (app/services/dedup_service.py).               *)
(* Embeddings are unit vectors scaled by 100, so that similarities come in *)
(* units of 1/10000 (0.9 is 9000).                                         *)
(***************************************************************************)
DEDUP_SIM_THRESHOLD == 9000
DEDUP_WINDOW_SECONDS == 300

\* ex=DEDUP_WINDOW_SECONDS + 10: how much longer than the window a meta key lives
MetaTtlSlack == 10

\* The deployment's DEDUP_MIN_COUNT (read from the environment, default 10),
\* scaled down with the number of tickets.
DEDUP_MIN_COUNT == 2

MaxDedupTicket == 3 \* ticket ids 1..MaxDedupTicket are recorded
MaxIncidents == 1   \* no call is started once incident:next_id has reached this
MaxTick == 2        \* the clock takes this many instants after the first

DedupTicketIds == 1..MaxDedupTicket

\* The instants the clock takes: the multiples of the window and a second
\* after each, in order, the first MaxTick + 1 of them.
DedupInstants ==
    {Epoch + (i \div 2) * DEDUP_WINDOW_SECONDS + (i % 2) : i \in 0..MaxTick}

\* embed_ticket(subject, body) of three non-empty texts: unit vectors. The
\* second is similar to the first (0.96) and to the third (0.936); the first
\* and the third are not similar (0.8).
Embeddings == {<<100, 0>>, <<96, 28>>, <<80, 60>>}

\* embedding_service.cosine_similarity(a, b): the dot product, clamped to [-1, 1]
cosine_similarity(a, b) ==
    LET dot == a[1] * b[1] + a[2] * b[2] IN
    IF dot > 10000 THEN 10000 ELSE IF dot < -10000 THEN -10000 ELSE dot

\* Mutant of ZREMRANGEBYSCORE: nothing is dropped.
ZREMRANGEBYSCORE_none(z, max) == z

\* ZREMRANGEBYSCORE key -inf max: drops the members with score <= max.
ZREMRANGEBYSCORE(z, max) == [m \in {m \in DOMAIN z : z[m] > max} |-> z[m]]

\* The members S of z in the sorted set's order: by score, then by member.
RECURSIVE ZOrder(_, _)
ZOrder(z, S) ==
    IF S = {} THEN << >>
    ELSE LET first == CHOOSE m \in S :
                          \A o \in S \ {m} : z[m] < z[o] \/ (z[m] = z[o] /\ m < o)
         IN  <<first>> \o ZOrder(z, S \ {first})

\* ZRANGEBYSCORE key min max: the members with min <= score <= max, in order.
ZRANGEBYSCORE(z, min, max) == ZOrder(z, {m \in DOMAIN z : min <= z[m] /\ z[m] <= max})

\* GET dedup:meta:{tid}: missing once the key has expired.
GetMeta(tid) ==
    IF tid \in DOMAIN dd_meta /\ clock < dd_meta[tid].expires
    THEN Some(dd_meta[tid].embedding) ELSE None

\* _similar_ticket_ids_in_window, lines 61-76: of ticket_ids, those whose
\* meta is there and whose similarity to embedding is above the threshold.
SimilarOf(ticket_ids, embedding) ==
    SelectSeq(ticket_ids,
              LAMBDA tid : /\ GetMeta(tid) # None
                           /\ cosine_similarity(embedding, TheValue(GetMeta(tid)))
                                  > DEDUP_SIM_THRESHOLD)

\* Mutant of TooFew: the trigger fires at DEDUP_MIN_COUNT already.
TooFew_strict(similar) == Len(similar) < DEDUP_MIN_COUNT

\* if len(similar) <= DEDUP_MIN_COUNT
TooFew(similar) == Len(similar) <= DEDUP_MIN_COUNT

\* SMEMBERS incident_tickets:{id}: a missing key is the empty set.
Members(id) == IF id \in DOMAIN incident_tickets THEN incident_tickets[id] ELSE {}

\* SADD incident_tickets:{id} tid
SADD(id, tid) ==
    [i \in DOMAIN incident_tickets \cup {id} |-> IF i = id THEN Members(id) \cup {tid}
                                                 ELSE incident_tickets[i]]

\* SET ticket_incident:{tid} id
SetTicketIncident(tid, id) ==
    [t \in DOMAIN ticket_incident \cup {tid} |-> IF t = tid THEN id ELSE ticket_incident[t]]

\* The locals of a check_and_record call; iwrites is history: the call's
\* writes to the incident keys.
IdleDedup ==
    [pc |-> "idle", ticket_id |-> 0, embedding |-> <<0, 0>>, now |-> 0,
     t_prune |-> 0, t_range |-> 0, ticket_ids |-> << >>, similar |-> << >>,
     incident_id |-> 0, i |-> 0, iwrites |-> << >>, ret |-> None]

\* One worker's step: its locals change, the others' stay.
DLocal(w, call) == dk' = [dk EXCEPT ![w] = call]

IWrote(w, write) == Append(dk[w].iwrites, write)

\* check_and_record(routed, embedding) is entered with a ticket of tids and
\* an embedding of embeddings: now = time.time(). No call is started once
\* incident:next_id has reached limit.
DEnter(w, tids, embeddings, limit) ==
    /\ dk[w].pc = "idle"
    /\ incident_next_id < limit
    /\ \E tid \in tids : \E embedding \in embeddings :
          DLocal(w, [IdleDedup EXCEPT !.pc = "zadd", !.ticket_id = tid,
                                      !.embedding = embedding, !.now = clock])
    /\ UNCHANGED <<dstore, recorded, clock, qvars, bvars, avars>>

\* The same, for a job whose arrival is not modelled
DStartWith(w, tids, embeddings, limit) ==
    DEnter(w, tids, embeddings, limit) /\ UNCHANGED hvars

\* check_and_record(routed, embedding) is entered with any ticket
DStart(w) == DStartWith(w, DedupTicketIds, Embeddings, MaxIncidents)

\* Tickets that are alike: embeddings whose similarities are all above the threshold.
SimilarEmbeddings == {<<100, 0>>, <<96, 28>>}

\* No job has been given ticket tid yet.
Unsubmitted(tid) == tid \notin DOMAIN recorded /\ \A w \in Workers : dk[w].ticket_id # tid

\* A worker takes the job of a ticket submitted once, one of a flood of like tickets.
DStartFlood(w) ==
    \E tid \in DedupTicketIds : Unsubmitted(tid) /\ DStartWith(w, {tid}, SimilarEmbeddings, MaxIncidents)

\* r.zadd(DEDUP_WINDOW_ZSET, {ticket_id: now})
ZaddWindow(w) ==
    /\ dk[w].pc = "zadd"
    /\ dd_window' = ZADD(dd_window, dk[w].ticket_id, dk[w].now)
    /\ recorded' = [t \in DOMAIN recorded \cup {dk[w].ticket_id} |->
                       IF t = dk[w].ticket_id
                       THEN [at |-> dk[w].now, embedding |-> dk[w].embedding]
                       ELSE recorded[t]]
    /\ DLocal(w, [dk[w] EXCEPT !.pc = "set_meta"])
    /\ UNCHANGED <<dd_meta, incident_next_id, incident, incident_tickets, ticket_incident,
                   clock, qvars, bvars, avars, hvars>>

\* r.set(dedup:meta:{ticket_id}, json.dumps(meta), ex=DEDUP_WINDOW_SECONDS + 10)
SetMeta(w) ==
    /\ dk[w].pc = "set_meta"
    /\ dd_meta' = [t \in DOMAIN dd_meta \cup {dk[w].ticket_id} |->
                      IF t = dk[w].ticket_id
                      THEN [embedding |-> dk[w].embedding,
                            expires |-> clock + DEDUP_WINDOW_SECONDS + MetaTtlSlack]
                      ELSE dd_meta[t]]
    /\ DLocal(w, [dk[w] EXCEPT !.pc = "prune"])
    /\ UNCHANGED <<dd_window, incident_next_id, incident, incident_tickets, ticket_incident,
                   recorded, clock, qvars, bvars, avars, hvars>>

\* _prune_window(r): r.zremrangebyscore(DEDUP_WINDOW_ZSET, "-inf", _window_start())
_prune_window(w) ==
    /\ dk[w].pc = "prune"
    /\ dd_window' = ZREMRANGEBYSCORE(dd_window, clock - DEDUP_WINDOW_SECONDS)
    /\ DLocal(w, [dk[w] EXCEPT !.pc = "range", !.t_prune = clock])
    /\ UNCHANGED <<dd_meta, incident_next_id, incident, incident_tickets, ticket_incident,
                   recorded, clock, qvars, bvars, avars, hvars>>

\* _similar_ticket_ids_in_window: ticket_ids = r.zrangebyscore(DEDUP_WINDOW_ZSET, start, now)
RangeWindow(w) ==
    /\ dk[w].pc = "range"
    /\ DLocal(w, [dk[w] EXCEPT !.pc = "metas", !.t_range = clock,
                  !.ticket_ids = ZRANGEBYSCORE(dd_window, clock - DEDUP_WINDOW_SECONDS, clock)])
    /\ UNCHANGED <<dstore, recorded, clock, qvars, bvars, avars, hvars>>

\* metas = pipe.execute(), one transaction; similar is filtered from them;
\* if len(similar) <= DEDUP_MIN_COUNT: return False, None, False, False
GetMetas(w) ==
    /\ dk[w].pc = "metas"
    /\ LET similar == SimilarOf(dk[w].ticket_ids, dk[w].embedding) IN
       IF TooFew(similar)
       THEN DLocal(w, [dk[w] EXCEPT !.pc = "done", !.similar = similar,
                       !.ret = Some(<<FALSE, None, FALSE, FALSE>>)])
       ELSE DLocal(w, [dk[w] EXCEPT !.pc = "incr", !.similar = similar])
    /\ UNCHANGED <<dstore, recorded, clock, qvars, bvars, avars, hvars>>

\* Mutant of IncrReply: the reply is the value before the increment.
IncrReply_old(counter) == IF counter = 0 THEN 1 ELSE counter

\* The reply of INCR incident:next_id: the value after the increment, which
\* the one command both writes and returns
IncrReply(counter) == counter + 1

\* _create_master_incident: incident_id = str(r.incr(INCIDENT_NEXT_ID))
IncrNextId(w) ==
    /\ dk[w].pc = "incr"
    /\ incident_next_id' = incident_next_id + 1
    /\ DLocal(w, [dk[w] EXCEPT !.pc = "hset", !.incident_id = IncrReply(incident_next_id),
                  !.iwrites = IWrote(w, <<"next_id", IncrReply(incident_next_id)>>)])
    /\ UNCHANGED <<dd_window, dd_meta, incident, incident_tickets, ticket_incident,
                   recorded, clock, qvars, bvars, avars, hvars>>

\* _create_master_incident: r.hset(key, mapping={..., "root_ticket_id", "status": "open"})
\* (summary and created_at are written too; nothing reads them back here)
HsetIncident(w) ==
    /\ dk[w].pc = "hset"
    /\ incident' = [i \in DOMAIN incident \cup {dk[w].incident_id} |->
                       IF i = dk[w].incident_id
                       THEN [root_ticket_id |-> dk[w].ticket_id, status |-> "open"]
                       ELSE incident[i]]
    /\ DLocal(w, [dk[w] EXCEPT !.i = 1,
                  !.pc = IF Len(dk[w].similar) >= 1 THEN "link_sadd" ELSE "final_sadd",
                  !.iwrites = IWrote(w, <<"incident", dk[w].incident_id,
                                          dk[w].incident_id \in DOMAIN incident>>)])
    /\ UNCHANGED <<dd_window, dd_meta, incident_next_id, incident_tickets, ticket_incident,
                   recorded, clock, qvars, bvars, avars, hvars>>

\* for tid in ticket_ids: r.sadd(tickets_key, tid)
LinkSadd(w) ==
    /\ dk[w].pc = "link_sadd"
    /\ incident_tickets' = SADD(dk[w].incident_id, dk[w].similar[dk[w].i])
    /\ DLocal(w, [dk[w] EXCEPT !.pc = "link_set",
                  !.iwrites = IWrote(w, <<"incident_tickets", dk[w].incident_id,
                                          dk[w].similar[dk[w].i]>>)])
    /\ UNCHANGED <<dd_window, dd_meta, incident_next_id, incident, ticket_incident,
                   recorded, clock, qvars, bvars, avars, hvars>>

\* for tid in ticket_ids: r.set(ticket_incident:{tid}, incident_id)
LinkSet(w) ==
    /\ dk[w].pc = "link_set"
    /\ ticket_incident' = SetTicketIncident(dk[w].similar[dk[w].i], dk[w].incident_id)
    /\ DLocal(w, [dk[w] EXCEPT !.i = dk[w].i + 1,
                  !.pc = IF dk[w].i < Len(dk[w].similar) THEN "link_sadd" ELSE "final_sadd",
                  !.iwrites = IWrote(w, <<"ticket_incident", dk[w].similar[dk[w].i],
                                          dk[w].incident_id>>)])
    /\ UNCHANGED <<dd_window, dd_meta, incident_next_id, incident, incident_tickets,
                   recorded, clock, qvars, bvars, avars, hvars>>

\* check_and_record: r.sadd(incident_tickets:{incident_id}, ticket_id)
FinalSadd(w) ==
    /\ dk[w].pc = "final_sadd"
    /\ incident_tickets' = SADD(dk[w].incident_id, dk[w].ticket_id)
    /\ DLocal(w, [dk[w] EXCEPT !.pc = "final_set",
                  !.iwrites = IWrote(w, <<"incident_tickets", dk[w].incident_id,
                                          dk[w].ticket_id>>)])
    /\ UNCHANGED <<dd_window, dd_meta, incident_next_id, incident, ticket_incident,
                   recorded, clock, qvars, bvars, avars, hvars>>

\* r.set(ticket_incident:{ticket_id}, incident_id); return True, incident_id, True, True
FinalSet(w) ==
    /\ dk[w].pc = "final_set"
    /\ ticket_incident' = SetTicketIncident(dk[w].ticket_id, dk[w].incident_id)
    /\ DLocal(w, [dk[w] EXCEPT !.pc = "done",
                  !.ret = Some(<<TRUE, Some(dk[w].incident_id), TRUE, TRUE>>),
                  !.iwrites = IWrote(w, <<"ticket_incident", dk[w].ticket_id,
                                          dk[w].incident_id>>)])
    /\ UNCHANGED <<dd_window, dd_meta, incident_next_id, incident, incident_tickets,
                   recorded, clock, qvars, bvars, avars, hvars>>

\* The caller has the result; the call's locals are gone.
DReturn(w) ==
    /\ dk[w].pc = "done"
    /\ DLocal(w, IdleDedup)
    /\ UNCHANGED <<dstore, recorded, clock, qvars, bvars, avars, hvars>>

\* One step of worker w's check_and_record call, short of its return.
DedupCall(w) ==
    \/ ZaddWindow(w) \/ SetMeta(w) \/ _prune_window(w) \/ RangeWindow(w) \/ GetMetas(w)
    \/ IncrNextId(w) \/ HsetIncident(w) \/ LinkSadd(w) \/ LinkSet(w)
    \/ FinalSadd(w) \/ FinalSet(w)

\* One step of worker w's check_and_record call.
DedupStep(w) == DedupCall(w) \/ DReturn(w)

\* No check_and_record call is in progress.
DQuiescent == \A w \in Workers : dk[w].pc = "idle"

DInit ==
    /\ dd_window = << >>
    /\ dd_meta = << >>
    /\ incident_next_id = 0
    /\ incident = << >>
    /\ incident_tickets = << >>
    /\ ticket_incident = << >>
    /\ recorded = << >>
    /\ dk = [w \in Workers |-> IdleDedup]

(***************************************************************************)
(* The agent registry (app/services/agent_registry.py) and the routing     *)
(* optimizer (app/services/routing_optimizer.py). Skill weights are in     *)
(* hundredths, unit vectors and similarities in thousandths.               *)
(***************************************************************************)
AgentCapacity == 1  \* max_concurrent_tickets of the seeded agents (10, 10, 8, 10 in the source)

\* MOCK_AGENTS, the agents seeded at startup, in the order of the source
MOCK_AGENTS ==
    <<[agent_id |-> "tech-1", skill_vector |-> <<90, 5, 5>>,
       max_concurrent_tickets |-> AgentCapacity, current_load |-> 0, status |-> "online"],
      [agent_id |-> "billing-1", skill_vector |-> <<5, 90, 5>>,
       max_concurrent_tickets |-> AgentCapacity, current_load |-> 0, status |-> "online"],
      [agent_id |-> "legal-1", skill_vector |-> <<5, 5, 90>>,
       max_concurrent_tickets |-> AgentCapacity, current_load |-> 0, status |-> "online"],
      [agent_id |-> "generalist-1", skill_vector |-> <<34, 33, 33>>,
       max_concurrent_tickets |-> AgentCapacity, current_load |-> 0, status |-> "online"]>>

NumAgents == 2      \* the first NumAgents of MOCK_AGENTS are seeded

SeededAgents == SubSeq(MOCK_AGENTS, 1, NumAgents)

\* TicketCategory
Categories == {"Billing", "Technical", "Legal"}

\* GET agent:{id}, parsed
get_agent(agent_id) == IF agent_id \in DOMAIN agent THEN Some(agent[agent_id]) ELSE None

\* SET agent:{id} agent.model_dump_json()
SetAgent(a) == [id \in DOMAIN agent \cup {a.agent_id} |-> IF id = a.agent_id THEN a ELSE agent[id]]

\* GET ticket_assignee:{ticket_id}
get_assignee(ticket_id) ==
    IF ticket_id \in DOMAIN ticket_assignee THEN Some(ticket_assignee[ticket_id]) ELSE None

\* SET ticket_assignee:{ticket_id} agent_id
SetAssignee(ticket_id, agent_id) ==
    [t \in DOMAIN ticket_assignee \cup {ticket_id} |->
        IF t = ticket_id THEN agent_id ELSE ticket_assignee[t]]

\* DEL ticket_assignee:{ticket_id}
DelAssignee(ticket_id) == [t \in DOMAIN ticket_assignee \ {ticket_id} |-> ticket_assignee[t]]

\* The orders in which the members of a Redis set may come back from SMEMBERS or SCAN.
Orderings(S) ==
    {ids \in [1..Cardinality(S) -> S] : \A i, j \in 1..Cardinality(S) : ids[i] = ids[j] => i = j}

\* Mutant of Decremented: the load is left as it was.
Decremented_not(load) == load

\* release_ticket_from_agent: agent.current_load = max(0, agent.current_load - 1)
Decremented(load) == IF load - 1 < 0 THEN 0 ELSE load - 1

\* list_online_agents, line 131: the agents that are kept
\* Mutant of HasCapacity: the load is not compared with the capacity.
HasCapacity_any(a) == a.status = "online"

HasCapacity(a) == a.status = "online" /\ a.current_load < a.max_concurrent_tickets

\* math.sqrt, rounded down, by Newton's iteration from x
RECURSIVE Newton(_, _)
Newton(n, x) == LET y == (x + n \div x) \div 2 IN IF y >= x THEN x ELSE Newton(n, y)

ISqrt(n) == IF n = 0 THEN 0 ELSE Newton(n, n)

\* routing_utils.ticket_skill_vector(category): a unit vector
ticket_skill_vector(category) ==
    IF category = "Technical" THEN <<1000, 0, 0>>
    ELSE IF category = "Billing" THEN <<0, 1000, 0>>
    ELSE <<0, 0, 1000>>

\* routing_utils.normalize_vector(vec)
normalize_vector(vec) ==
    LET norm == ISqrt((vec[1] * vec[1] + vec[2] * vec[2] + vec[3] * vec[3]) * 10000) IN
    IF norm <= 0 THEN <<577, 577, 577>>
    ELSE [i \in 1..3 |-> (vec[i] * 100000) \div norm]

\* routing_utils.cosine_similarity_vec(a, b)
cosine_similarity_vec(a, b) ==
    LET dot == (a[1] * b[1] + a[2] * b[2] + a[3] * b[3]) \div 1000 IN
    IF dot > 1000 THEN 1000 ELSE IF dot < -1000 THEN -1000 ELSE dot

ROUTING_LOAD_PENALTY_FACTOR == 100

\* max(1, agent.max_concurrent_tickets)
CapacityOf(a) == IF a.max_concurrent_tickets < 1 THEN 1 ELSE a.max_concurrent_tickets

\* routing_optimizer._compute_scores: sim - load_penalty per agent, as the
\* fraction num / den of thousandths
_compute_scores(category, agents) ==
    [i \in 1..Len(agents) |->
        [num |-> cosine_similarity_vec(ticket_skill_vector(category),
                                       normalize_vector(agents[i].skill_vector))
                     * CapacityOf(agents[i])
                 - ROUTING_LOAD_PENALTY_FACTOR * agents[i].current_load,
         den |-> CapacityOf(agents[i])]]

ScoreLess(x, y) == x.num * y.den < y.num * x.den

\* The indices of the greatest scores
Maximal(scores) ==
    {i \in 1..Len(scores) : \A j \in 1..Len(scores) : ~ScoreLess(scores[i], scores[j])}

\* np.argmax(scores): the first index of the greatest score
argmax(scores) == CHOOSE i \in Maximal(scores) : \A j \in Maximal(scores) : i <= j

\* scipy.optimize.milp on min -scores.x, sum(x) = 1, x binary: the index of the
\* one in an optimal x. Which of several optimal vertices the solver returns
\* is not fixed by its interface; every one is listed.
milp(scores) == Maximal(scores)

\* routing_optimizer.solve_routing_ilp(routed, agents): the values it may
\* return. Without scipy, or when the solver fails, it returns argmax(scores).
solve_routing_ilp(category, agents) ==
    IF agents = << >> THEN {None}
    ELSE LET scores == _compute_scores(category, agents) IN
         {Some(agents[i].agent_id) : i \in milp(scores) \cup {argmax(scores)}}

(***************************************************************************)
(* The rest of a process_ticket job (app/worker.py), after                 *)
(* check_and_record: add_processed, route_ticket, assign_ticket_to_agent.  *)
(***************************************************************************)
\* Urgency scores S in [0, 1], in hundredths as score_urgency returns them
UrgencyScores == 0..100

\* Mutant of round: a tie goes up.
round_half_up(n, d) == IF 2 * (n % d) < d THEN n \div d ELSE (n \div d) + 1

\* Python's round(x) of x = n / d >= 0: the nearest integer, and of the two
\* nearest ones the even one
round(n, d) ==
    IF 2 * (n % d) < d THEN n \div d
    ELSE IF 2 * (n % d) > d THEN (n \div d) + 1
    ELSE IF (n \div d) % 2 = 0 THEN n \div d ELSE (n \div d) + 1

\* worker._compute_urgency_and_build_routed: the fields derived from S
\* (S in hundredths, so S * 10 is the fraction 10 S / 100)
_compute_urgency_and_build_routed(S) ==
    [urgency_score |-> S,
     is_urgent |-> S >= 50,
     priority_score |-> IF round(10 * S, 100) > 10 THEN 10 ELSE round(10 * S, 100)]

IdleJob ==
    [pc |-> "idle", ticket_id |-> 0, urgency_score |-> 0, is_urgent |-> FALSE,
     priority_score |-> 0, category |-> "Technical", suppress_individual |-> FALSE,
     ids |-> << >>, i |-> 0, agents |-> << >>, agent_id |-> None, a |-> None]

ALocal(w, job) == ak' = [ak EXCEPT ![w] = job]

\* Mutant of AfterCheck: a ticket whose alert is suppressed is not queued.
AfterCheck_unlessSuppressed(suppress_individual) ==
    IF suppress_individual THEN "smembers" ELSE "add_processed"

\* Where process_ticket goes once check_and_record has returned (worker.py
\* 53-54): add_processed(routed), whatever was returned
AfterCheck(suppress_individual) == "add_processed"

\* worker.py 54 is reached for a ticket with the given score and category,
\* check_and_record having returned suppress_individual
JEnter(w, tid, score, category, suppress_individual) ==
    LET routed == _compute_urgency_and_build_routed(score) IN
    ALocal(w, [IdleJob EXCEPT !.pc = AfterCheck(suppress_individual), !.ticket_id = tid,
                              !.urgency_score = routed.urgency_score,
                              !.is_urgent = routed.is_urgent,
                              !.priority_score = routed.priority_score,
                              !.category = category,
                              !.suppress_individual = suppress_individual])

\* The same, for a ticket that is not part of a flood
JStartWith(w, tid, score, category) == JEnter(w, tid, score, category, FALSE)

\* add_processed(routed)
JAddProcessed(w) ==
    /\ ak[w].pc = "add_processed"
    /\ AddEffect([ticket_id |-> ak[w].ticket_id, subject |-> 0,
                  urgency_score |-> ak[w].urgency_score])
    /\ ALocal(w, [ak[w] EXCEPT !.pc = "smembers"])
    /\ UNCHANGED <<clock, bvars, dvars, agent, agents_online, ticket_assignee, hvars>>

\* list_online_agents: ids = r.smembers(AGENTS_ONLINE_SET)
RouteSmembers(w) ==
    /\ ak[w].pc = "smembers"
    /\ \E ids \in Orderings(agents_online) :
          ALocal(w, [ak[w] EXCEPT !.ids = ids, !.i = 1,
                                  !.pc = IF ids = << >> THEN "solve" ELSE "get_agent"])
    /\ UNCHANGED <<clock, qvars, bvars, dvars, agent, agents_online, ticket_assignee, hvars>>

\* list_online_agents: a = get_agent(aid), kept if online with capacity
RouteGetAgent(w) ==
    /\ ak[w].pc = "get_agent"
    /\ LET a == get_agent(ak[w].ids[ak[w].i])
           keep == a # None /\ HasCapacity(TheValue(a))
       IN  ALocal(w, [ak[w] EXCEPT
                        !.agents = IF keep THEN Append(@, TheValue(a)) ELSE @,
                        !.i = @ + 1,
                        !.pc = IF ak[w].i < Len(ak[w].ids) THEN "get_agent" ELSE "solve"])
    /\ UNCHANGED <<clock, qvars, bvars, dvars, agent, agents_online, ticket_assignee, hvars>>

\* route_ticket: None without agents, else solve_routing_ilp(routed, agents);
\* process_ticket: if agent_id: assign_ticket_to_agent(...)
RouteSolve(w) ==
    /\ ak[w].pc = "solve"
    /\ \E r \in solve_routing_ilp(ak[w].category, ak[w].agents) :
          ALocal(w, [ak[w] EXCEPT !.agent_id = r,
                                  !.pc = IF r = None THEN "done" ELSE "assign_set"])
    /\ UNCHANGED <<clock, qvars, bvars, dvars, agent, agents_online, ticket_assignee, hvars>>

\* assign_ticket_to_agent: r.set(ticket_assignee:{ticket_id}, agent_id)
AssignSet(w) ==
    /\ ak[w].pc = "assign_set"
    /\ ticket_assignee' = SetAssignee(ak[w].ticket_id, TheValue(ak[w].agent_id))
    /\ ALocal(w, [ak[w] EXCEPT !.pc = "assign_get"])
    /\ UNCHANGED <<clock, qvars, bvars, dvars, agent, agents_online, hvars>>

\* assign_ticket_to_agent: agent = get_agent(agent_id)
AssignGet(w) ==
    /\ ak[w].pc = "assign_get"
    /\ LET a == get_agent(TheValue(ak[w].agent_id)) IN
       ALocal(w, [ak[w] EXCEPT !.a = a, !.pc = IF a = None THEN "done" ELSE "assign_write"])
    /\ UNCHANGED <<clock, qvars, bvars, dvars, agent, agents_online, ticket_assignee, hvars>>

\* assign_ticket_to_agent: current_load + 1, r.set(agent:{id}, agent.model_dump_json())
AssignWrite(w) ==
    /\ ak[w].pc = "assign_write"
    /\ agent' = SetAgent([TheValue(ak[w].a) EXCEPT !.current_load = @ + 1])
    /\ ALocal(w, [ak[w] EXCEPT !.pc = "done"])
    /\ UNCHANGED <<clock, qvars, bvars, dvars, agents_online, ticket_assignee, hvars>>

\* Mutant of Triggers: a score of 0.8 triggers the webhook too.
Triggers_at(url, S) == ~(url = "" \/ S < 80)

\* webhook.trigger_high_urgency_webhook goes on to POST:
\* if not WEBHOOK_URL or routed.urgency_score <= 0.8: return
Triggers(url, S) == ~(url = "" \/ S <= 80)

\* trigger_high_urgency_webhook around _do_post, which returned or raised:
\* except Exception: pass. TRUE when the exception reaches process_ticket.
Escapes(raised) == FALSE

\* webhook.trigger_high_urgency_webhook(routed): the POSTs once it is over
trigger_high_urgency_webhook(ticket_id, S) ==
    IF Triggers(webhook.url, S)
    THEN {Append(webhook.posts, [ticket_id |-> ticket_id, raised |-> raised,
                                 failed |-> Escapes(raised)]) : raised \in BOOLEAN}
    ELSE {webhook.posts}

\* The events of worker w's job, in the order of worker.py 58-96: the
\* event type and the ticket (an incident is named by its root, that ticket)
JobEvents(w) ==
    (IF ak[w].agent_id # None THEN <<<<"ticket_assigned_to_agent", ak[w].ticket_id>>>>
     ELSE << >>)
    \o (IF ak[w].suppress_individual
        THEN <<<<"ticket_linked_to_master_incident", ak[w].ticket_id>>,
               <<"master_incident_created", ak[w].ticket_id>>>>
        ELSE <<<<"ticket_processed", ak[w].ticket_id>>>>)

\* Mutant of publish_event: an unreachable store is not an error, the
\* event is handed to the subscriber all the same.
publish_event_always(bus, event) ==
    [bus EXCEPT !.inbox = Append(@, event), !.last = None]

\* activity.publish_event(event_type, data): r.publish(ACTIVITY_CHANNEL, payload)
\* reaches the subscriber if its subscription stands; any exception is
\* logged. last is history: the event, if it was published with the store
\* reachable again after an outage that the subscriber's listen() has met.
publish_event(bus, event) ==
    IF ~bus.reachable THEN bus
    ELSE [bus EXCEPT !.inbox = IF bus.sub = "listening" /\ ~bus.broken
                                THEN Append(@, event) ELSE @,
                     !.last = IF bus.outages > 0 /\ ~bus.broken /\ bus.sub # "starting"
                              THEN Some(event) ELSE None]

\* The bus after publish_event for each of events, in order
RECURSIVE PublishAll(_, _)
PublishAll(bus, published) ==
    IF published = << >> THEN bus
    ELSE PublishAll(publish_event(bus, Head(published)), Tail(published))

\* The job's last lines (worker.py 58-98), but for its publish_event calls:
\* if not suppress_individual: await trigger_high_urgency_webhook(routed)
JEnd(w) ==
    /\ ak[w].pc = "done"
    /\ ALocal(w, IdleJob)
    /\ IF ak[w].suppress_individual
       THEN UNCHANGED webhook
       ELSE \E posts \in trigger_high_urgency_webhook(ak[w].ticket_id, ak[w].urgency_score) :
               webhook' = [webhook EXCEPT !.posts = posts]
    /\ UNCHANGED <<clock, qvars, bvars, dvars, agent, agents_online, ticket_assignee,
                   ck, xk, events, arq>>

\* The job's last lines where the activity bus is not followed: what the
\* job publishes is not kept.
JReturn(w) == JEnd(w) /\ UNCHANGED pubsub

\* The job's last lines (worker.py 58-98) with its publish_event calls
JPublishReturn(w) == JEnd(w) /\ pubsub' = PublishAll(pubsub, JobEvents(w))

\* One step of the rest of worker w's job.
JobStep(w) ==
    \/ JAddProcessed(w) \/ RouteSmembers(w) \/ RouteGetAgent(w) \/ RouteSolve(w)
    \/ AssignSet(w) \/ AssignGet(w) \/ AssignWrite(w) \/ JReturn(w)

\* check_and_record has returned to process_ticket, which goes on with a
\* ticket of one of the given urgency scores and categories
AfterDedup(w, scores, categories) ==
    /\ dk[w].pc = "done"
    /\ ak[w].pc = "idle"
    /\ DLocal(w, IdleDedup)
    /\ \E score \in scores : \E category \in categories :
          JEnter(w, dk[w].ticket_id, score, category, TheValue(dk[w].ret)[3])
    /\ UNCHANGED <<dstore, recorded, clock, qvars, bvars, agent, agents_online,
                   ticket_assignee, hvars>>

(***************************************************************************)
(* The API process (app/main.py): GET /tickets/next, by the consumers, and *)
(* the operator's requests. Both release tickets from agents and remove    *)
(* them from incidents, a Redis command at a time; the procedures below    *)
(* act on the caller's locals l, which Set replaces, and go to pc after    *)
(* when they return.                                                       *)
(***************************************************************************)
MAX_EVENTS == 1     \* the capacity of the activity ring (200 in the source)

\* Mutant of emit: on overflow the newest event is dropped.
emit_dropNewest(event_type, ticket_id) ==
    LET all == Append(events, <<event_type, ticket_id>>) IN
    IF Len(all) > MAX_EVENTS THEN SubSeq(all, 1, MAX_EVENTS) ELSE all

\* activity.emit(event_type, data): append, then keep the last MAX_EVENTS
emit(event_type, ticket_id) ==
    LET all == Append(events, <<event_type, ticket_id>>) IN
    IF Len(all) > MAX_EVENTS THEN SubSeq(all, Len(all) - MAX_EVENTS + 1, Len(all)) ELSE all

\* GET ticket_incident:{ticket_id}
_get_incident_for_ticket(ticket_id) ==
    IF ticket_id \in DOMAIN ticket_incident THEN Some(ticket_incident[ticket_id]) ELSE None

\* SREM incident_tickets:{id} tid: a set left empty is a key that is gone
SREM(id, tid) ==
    [i \in {i \in DOMAIN incident_tickets : i # id \/ incident_tickets[i] # {tid}} |->
        IF i = id THEN incident_tickets[i] \ {tid} ELSE incident_tickets[i]]

HsetResolved_open(id) ==
    [i \in DOMAIN incident \cup {id} |->
        IF i # id THEN incident[i]
        ELSE IF id \in DOMAIN incident THEN [incident[id] EXCEPT !.status = "open"]
        ELSE [root_ticket_id |-> 0, status |-> "open"]]

\* HSET incident:{id} status resolved
HsetResolved(id) ==
    [i \in DOMAIN incident \cup {id} |->
        IF i # id THEN incident[i]
        ELSE IF id \in DOMAIN incident THEN [incident[id] EXCEPT !.status = "resolved"]
        ELSE [root_ticket_id |-> 0, status |-> "resolved"]]

\* Mutant of Emptied: an incident is resolved when one ticket is left in it.
Emptied_one(remaining) == remaining = 1

\* remove_ticket_from_incident: if remaining == 0
Emptied(remaining) == remaining = 0

\* The caller of a shared procedure keeps its locals: consumer who's
\* request, or the operator's request when who is 0.
SetLocal(who, l) == IF who = 0 THEN xk' = l ELSE ck' = [ck EXCEPT ![who] = l]

\* agent_registry.release_ticket_from_agent(l.ticket_id)
release_ticket_from_agent(who, l, after) ==
    \/ /\ l.pc = "rel_get"
       /\ LET agent_id == get_assignee(l.ticket_id) IN
          SetLocal(who, [l EXCEPT !.agent_id = agent_id,
                        !.pc = IF agent_id = None THEN after ELSE "rel_get_agent"])
       /\ UNCHANGED <<agent, ticket_assignee>>
    \/ /\ l.pc = "rel_get_agent"
       /\ LET a == get_agent(TheValue(l.agent_id)) IN
          SetLocal(who, [l EXCEPT !.a = a, !.pc = IF a = None THEN "rel_del" ELSE "rel_set"])
       /\ UNCHANGED <<agent, ticket_assignee>>
    \/ /\ l.pc = "rel_set"
       /\ agent' = SetAgent([TheValue(l.a) EXCEPT !.current_load = Decremented(@)])
       /\ SetLocal(who, [l EXCEPT !.pc = "rel_del"])
       /\ UNCHANGED ticket_assignee
    \/ /\ l.pc = "rel_del"
       /\ ticket_assignee' = DelAssignee(l.ticket_id)
       /\ SetLocal(who, [l EXCEPT !.pc = after])
       /\ UNCHANGED agent

\* dedup_service.remove_ticket_from_incident(l.ticket_id)
remove_ticket_from_incident(who, l, after) ==
    \/ /\ l.pc = "rm_get"
       /\ LET incident_id == _get_incident_for_ticket(l.ticket_id) IN
          SetLocal(who, [l EXCEPT !.incident_id = incident_id,
                        !.pc = IF incident_id = None THEN after ELSE "rm_srem"])
       /\ UNCHANGED <<incident, incident_tickets, ticket_incident>>
    \/ /\ l.pc = "rm_srem"
       /\ incident_tickets' = SREM(TheValue(l.incident_id), l.ticket_id)
       /\ SetLocal(who, [l EXCEPT !.pc = "rm_del"])
       /\ UNCHANGED <<incident, ticket_incident>>
    \/ /\ l.pc = "rm_del"
       /\ ticket_incident' = [t \in DOMAIN ticket_incident \ {l.ticket_id} |-> ticket_incident[t]]
       /\ SetLocal(who, [l EXCEPT !.pc = "rm_scard"])
       /\ UNCHANGED <<incident, incident_tickets>>
    \/ /\ l.pc = "rm_scard"
       /\ LET remaining == Cardinality(Members(TheValue(l.incident_id))) IN
          SetLocal(who, [l EXCEPT !.remaining = remaining,
                        !.pc = IF Emptied(remaining) THEN "rm_hset" ELSE after])
       /\ UNCHANGED <<incident, incident_tickets, ticket_incident>>
    \/ /\ l.pc = "rm_hset"
       /\ incident' = HsetResolved(TheValue(l.incident_id))
       /\ SetLocal(who, [l EXCEPT !.pc = after])
       /\ UNCHANGED <<incident_tickets, ticket_incident>>

\* The locals of a GET /tickets/next request
\* What the registry holds when a request arrives
RegistryState ==
    [agent |-> agent, agents_online |-> agents_online, ticket_assignee |-> ticket_assignee]

\* The locals of a GET /tickets/next request; before is history: the
\* registry as the request found it.
IdleRequest ==
    [pc |-> "idle", ticket_id |-> 0, ret |-> None, agent_id |-> None, a |-> None,
     incident_id |-> None, remaining |-> 0, before |-> None]

CLocal(c, request) == ck' = [ck EXCEPT ![c] = request]

\* get_next_ticket: ticket = pop_next(); 404 if None
HPop(c) ==
    /\ ck[c].pc = "idle"
    /\ PopEffect(c)
    /\ LET r == ZPOPMAX(zset) IN
       IF r.popped = None
       THEN CLocal(c, [IdleRequest EXCEPT !.pc = "done"])
       ELSE CLocal(c, [IdleRequest EXCEPT !.pc = "rel_get", !.before = Some(RegistryState),
                         !.ticket_id = json_loads(TheValue(r.popped)).ticket_id,
                         !.ret = Some(json_loads(TheValue(r.popped)))])
    /\ UNCHANGED <<clock, bvars, dvars, avars, xk, events, arq, webhook, pubsub>>

\* get_next_ticket: release_ticket_from_agent(ticket.ticket_id)
HRelease(c) ==
    /\ release_ticket_from_agent(c, ck[c], "rm_get")
    /\ UNCHANGED <<clock, qvars, bvars, dvars, agents_online, ak, xk, events, arq, webhook, pubsub>>

\* get_next_ticket: remove_ticket_from_incident(ticket.ticket_id)
HRemove(c) ==
    /\ remove_ticket_from_incident(c, ck[c], "emit")
    /\ UNCHANGED <<dd_window, dd_meta, incident_next_id, recorded, dk,
                   clock, qvars, bvars, avars, xk, events, arq, webhook, pubsub>>

\* get_next_ticket: activity_emit("ticket_popped", ...); return ticket
HEmit(c) ==
    /\ ck[c].pc = "emit"
    /\ events' = emit("ticket_popped", ck[c].ticket_id)
    /\ CLocal(c, [ck[c] EXCEPT !.pc = "done"])
    /\ UNCHANGED <<clock, qvars, bvars, dvars, avars, xk, arq, webhook, pubsub>>

\* The response is with the consumer; the request's locals are gone.
HReturn(c) ==
    /\ ck[c].pc = "done"
    /\ CLocal(c, IdleRequest)
    /\ UNCHANGED <<clock, qvars, bvars, dvars, avars, xk, events, arq, webhook, pubsub>>

\* GET /tickets/next by consumer c, a step at a time
get_next_ticket(c) == HPop(c) \/ HRelease(c) \/ HRemove(c) \/ HEmit(c) \/ HReturn(c)

\* The locals of the operator's request
IdleOperator ==
    [pc |-> "idle", op |-> "none", ticket_id |-> 0, agent_id |-> None, a |-> None,
     incident_id |-> None, remaining |-> 0, snapshot |-> << >>, keys |-> << >>, i |-> 0,
     actual_load |-> 0, count |-> 0, ret |-> None,
     calls |-> 0, before |-> None, first |-> None]

XLocal(request) == xk' = request

\* POST /incidents/{incident_id}/close arrives
XCloseStart(incident_id) ==
    /\ xk.pc = "idle"
    /\ XLocal([IdleOperator EXCEPT !.op = "close_incident", !.pc = "close_exists",
                                   !.incident_id = Some(incident_id)])
    /\ UNCHANGED <<clock, qvars, bvars, dvars, avars, ck, events, arq, webhook, pubsub>>

\* close_incident: if not r.exists(key): return False
XCloseExists ==
    /\ xk.pc = "close_exists"
    /\ IF TheValue(xk.incident_id) \in DOMAIN incident
       THEN XLocal([xk EXCEPT !.pc = "close_hset"])
       ELSE XLocal([xk EXCEPT !.pc = "done", !.ret = Some(FALSE)])
    /\ UNCHANGED <<clock, qvars, bvars, dvars, avars, ck, events, arq, webhook, pubsub>>

\* close_incident: r.hset(key, "status", "resolved"); return True
XCloseHset ==
    /\ xk.pc = "close_hset"
    /\ incident' = HsetResolved(TheValue(xk.incident_id))
    /\ XLocal([xk EXCEPT !.pc = "done", !.ret = Some(TRUE)])
    /\ UNCHANGED <<dd_window, dd_meta, incident_next_id, incident_tickets, ticket_incident,
                   recorded, dk, clock, qvars, bvars, avars, ck, events, arq, webhook, pubsub>>

\* The operator has the response.
XReturn ==
    /\ xk.pc = "done"
    /\ XLocal(IdleOperator)
    /\ UNCHANGED <<clock, qvars, bvars, dvars, avars, ck, events, arq, webhook, pubsub>>

\* POST /incidents/{id}/close, a step at a time, for the ids up to one not yet allocated
close_incident ==
    \/ \E incident_id \in 1..(MaxIncidents + 1) : XCloseStart(incident_id)
    \/ XCloseExists \/ XCloseHset

\* ZRANGE key 0 -1 desc: the members, the last of the order first
RECURSIVE ZRevRange(_)
ZRevRange(z) ==
    IF DOMAIN z = {} THEN << >> ELSE <<ZLast(z)>> \o ZRevRange(ZREM(z, ZLast(z)))

\* broker.list_snapshot(), of which the requests use the ticket ids
list_snapshot ==
    LET members == ZRevRange(zset) IN
    [i \in 1..Len(members) |-> json_loads(members[i]).ticket_id]

\* agent_registry.tickets_for_agent(agent_id): the keys of a scan of
\* ticket_assignee:* whose value is agent_id (a scan of an unchanging
\* keyspace returns every key once)
tickets_for_agent(agent_id) == {t \in DOMAIN ticket_assignee : ticket_assignee[t] = agent_id}

\* DELETE /queue arrives: snapshot = list_snapshot()
XClearStart ==
    /\ xk.pc = "idle"
    /\ LET snapshot == list_snapshot IN
       XLocal([IdleOperator EXCEPT
                 !.op = "reset_queue", !.snapshot = snapshot, !.i = 1,
                 !.ticket_id = IF snapshot = << >> THEN 0 ELSE snapshot[1],
                 !.pc = IF snapshot = << >> THEN "clear_all" ELSE "rm_get"])
    /\ UNCHANGED <<clock, qvars, bvars, dvars, avars, ck, events, arq, webhook, pubsub>>

\* reset_queue: remove_ticket_from_incident(routed.ticket_id)
XClearRemove ==
    /\ xk.op = "reset_queue"
    /\ remove_ticket_from_incident(0, xk, "clear_next")
    /\ UNCHANGED <<dd_window, dd_meta, incident_next_id, recorded, dk,
                   clock, qvars, bvars, avars, ck, events, arq, webhook, pubsub>>

\* Mutant of MoreToClear: the loop stops before the last ticket of the snapshot.
MoreToClear_short(i, snapshot) == i + 1 < Len(snapshot)

\* reset_queue: for routed in snapshot, after the i-th ticket
MoreToClear(i, snapshot) == i < Len(snapshot)

\* reset_queue: for routed in snapshot
XClearNext ==
    /\ xk.pc = "clear_next"
    /\ IF MoreToClear(xk.i, xk.snapshot)
       THEN XLocal([xk EXCEPT !.i = @ + 1, !.ticket_id = xk.snapshot[xk.i + 1],
                              !.pc = "rm_get"])
       ELSE XLocal([xk EXCEPT !.pc = "clear_all"])
    /\ UNCHANGED <<clock, qvars, bvars, dvars, avars, ck, events, arq, webhook, pubsub>>

\* reset_queue: clear_all(), DEL ticket_queue:processed
XClearAll ==
    /\ xk.pc = "clear_all"
    /\ zset' = << >>
    /\ qret' = [op |-> "clear_all", by |-> 0, result |-> None]
    /\ XLocal([xk EXCEPT !.pc = "zero_scan"])
    /\ UNCHANGED <<popLog, clock, bvars, dvars, avars, ck, events, arq, webhook, pubsub>>

\* POST /agents/loads/zero arrives
XZeroStart ==
    /\ xk.pc = "idle"
    /\ XLocal([IdleOperator EXCEPT !.op = "zero_loads", !.pc = "zero_scan", !.calls = 1,
                                   !.before = Some(RegistryState)])
    /\ UNCHANGED <<clock, qvars, bvars, dvars, avars, ck, events, arq, webhook, pubsub>>

\* POST /agents/loads/zero is sent again as soon as its response has arrived:
\* the request notes the response of the first call
XZeroAgain ==
    /\ xk.pc = "done" /\ xk.op = "zero_loads" /\ xk.calls = 1
    /\ XLocal([IdleOperator EXCEPT !.op = "zero_loads", !.pc = "zero_scan", !.calls = 2,
                                   !.before = Some(RegistryState), !.first = xk.ret])
    /\ UNCHANGED <<clock, qvars, bvars, dvars, avars, ck, events, arq, webhook, pubsub>>

\* force_zero_all_loads: list(r.scan_iter(match="ticket_assignee:*"))
XZeroScan ==
    /\ xk.pc = "zero_scan"
    /\ \E keys \in Orderings(DOMAIN ticket_assignee) :
          XLocal([xk EXCEPT !.keys = keys, !.i = 1,
                            !.pc = IF keys = << >> THEN "zero_agents" ELSE "zero_del"])
    /\ UNCHANGED <<clock, qvars, bvars, dvars, avars, ck, events, arq, webhook, pubsub>>

\* force_zero_all_loads: r.delete(key)
XZeroDel ==
    /\ xk.pc = "zero_del"
    /\ ticket_assignee' = DelAssignee(xk.keys[xk.i])
    /\ XLocal([xk EXCEPT !.i = @ + 1,
                         !.pc = IF xk.i < Len(xk.keys) THEN "zero_del" ELSE "zero_agents"])
    /\ UNCHANGED <<clock, qvars, bvars, dvars, agent, agents_online, ak, ck, events, arq, webhook, pubsub>>

\* force_zero_all_loads: for key in r.scan_iter(match="agent:*"); zeroed = 0
XZeroAgents ==
    /\ xk.pc = "zero_agents"
    /\ \E keys \in Orderings(DOMAIN agent) :
          XLocal([xk EXCEPT !.keys = keys, !.i = 1, !.count = 0,
                            !.pc = IF keys = << >> THEN "zeroed" ELSE "zero_get"])
    /\ UNCHANGED <<clock, qvars, bvars, dvars, avars, ck, events, arq, webhook, pubsub>>

\* Mutant of NeedsZero: an agent with one ticket is left as it is.
NeedsZero_above(a) == a.current_load > 1

\* force_zero_all_loads: if agent.current_load != 0
NeedsZero(a) == a.current_load # 0

\* force_zero_all_loads: agent = get_agent(agent_id)
XZeroGet ==
    /\ xk.pc = "zero_get"
    /\ LET a == get_agent(xk.keys[xk.i]) IN
       IF a # None /\ NeedsZero(TheValue(a))
       THEN XLocal([xk EXCEPT !.a = a, !.pc = "zero_set"])
       ELSE XLocal([xk EXCEPT !.a = a, !.i = @ + 1,
                              !.pc = IF xk.i < Len(xk.keys) THEN "zero_get" ELSE "zeroed"])
    /\ UNCHANGED <<clock, qvars, bvars, dvars, avars, ck, events, arq, webhook, pubsub>>

\* force_zero_all_loads: agent.current_load = 0; r.set(...); zeroed += 1
XZeroSet ==
    /\ xk.pc = "zero_set"
    /\ agent' = SetAgent([TheValue(xk.a) EXCEPT !.current_load = 0])
    /\ XLocal([xk EXCEPT !.i = @ + 1, !.count = @ + 1,
                         !.pc = IF xk.i < Len(xk.keys) THEN "zero_get" ELSE "zeroed"])
    /\ UNCHANGED <<clock, qvars, bvars, dvars, agents_online, ticket_assignee, ak, ck, events, arq, webhook, pubsub>>

\* force_zero_all_loads: return zeroed; reset_queue goes on to
\* activity_emit("queue_cleared", {}), zero_loads returns the count
XZeroed ==
    /\ xk.pc = "zeroed"
    /\ IF xk.op = "reset_queue"
       THEN /\ events' = emit("queue_cleared", 0)
            /\ XLocal([xk EXCEPT !.pc = "done"])
       ELSE /\ events' = events
            /\ XLocal([xk EXCEPT !.pc = "done", !.ret = Some(xk.count)])
    /\ UNCHANGED <<clock, qvars, bvars, dvars, avars, ck, arq, webhook, pubsub>>

\* agent_registry.force_zero_all_loads(), a step at a time
force_zero_all_loads == XZeroScan \/ XZeroDel \/ XZeroAgents \/ XZeroGet \/ XZeroSet \/ XZeroed

\* DELETE /queue, a step at a time
reset_queue ==
    XClearStart \/ XClearRemove \/ XClearNext \/ XClearAll \/ force_zero_all_loads

\* DELETE /queue where no ticket is assigned and no agent is registered: the
\* steps that are left of it
reset_queue_unassigned ==
    XClearStart \/ XClearRemove \/ XClearNext \/ XClearAll
    \/ XZeroScan \/ XZeroAgents \/ XZeroed

\* POST /agents/loads/zero, a step at a time
zero_loads == XZeroStart \/ XZeroAgain \/ force_zero_all_loads

\* POST /agents/loads/reconcile arrives
XRecStart ==
    /\ xk.pc = "idle"
    /\ XLocal([IdleOperator EXCEPT !.op = "reconcile_loads", !.pc = "rec_scan", !.calls = 1,
                                   !.before = Some(RegistryState)])
    /\ UNCHANGED <<clock, qvars, bvars, dvars, avars, ck, events, arq, webhook, pubsub>>

\* POST /agents/loads/reconcile is sent again as soon as its response has
\* arrived: the request notes the response of the first call
XRecAgain ==
    /\ xk.pc = "done" /\ xk.op = "reconcile_loads" /\ xk.calls = 1
    /\ XLocal([IdleOperator EXCEPT !.op = "reconcile_loads", !.pc = "rec_scan", !.calls = 2,
                                   !.before = Some(RegistryState), !.first = xk.ret])
    /\ UNCHANGED <<clock, qvars, bvars, dvars, avars, ck, events, arq, webhook, pubsub>>

\* reconcile_agent_loads: updated = 0; for key in r.scan_iter(match="agent:*")
XRecScan ==
    /\ xk.pc = "rec_scan"
    /\ \E keys \in Orderings(DOMAIN agent) :
          XLocal([xk EXCEPT !.keys = keys, !.i = 1, !.count = 0,
                            !.pc = IF keys = << >> THEN "rec_done" ELSE "rec_get"])
    /\ UNCHANGED <<clock, qvars, bvars, dvars, avars, ck, events, arq, webhook, pubsub>>

\* reconcile_agent_loads: agent = get_agent(agent_id)
XRecGet ==
    /\ xk.pc = "rec_get"
    /\ LET a == get_agent(xk.keys[xk.i]) IN
       IF a # None
       THEN XLocal([xk EXCEPT !.a = a, !.pc = "rec_count"])
       ELSE XLocal([xk EXCEPT !.a = a, !.i = @ + 1,
                              !.pc = IF xk.i < Len(xk.keys) THEN "rec_get" ELSE "rec_done"])
    /\ UNCHANGED <<clock, qvars, bvars, dvars, avars, ck, events, arq, webhook, pubsub>>

\* Mutant of Drifted: only a load that is too high is repaired.
Drifted_high(a, actual_load) == a.current_load > actual_load

\* reconcile_agent_loads: if agent.current_load != actual_load
Drifted(a, actual_load) == a.current_load # actual_load

\* reconcile_agent_loads: actual_load = len(tickets_for_agent(agent_id)), the
\* scan and its GETs taken as one step: the request runs with nothing else
\* in progress
XRecCount ==
    /\ xk.pc = "rec_count"
    /\ LET actual_load == Cardinality(tickets_for_agent(xk.keys[xk.i])) IN
       IF Drifted(TheValue(xk.a), actual_load)
       THEN XLocal([xk EXCEPT !.actual_load = actual_load, !.pc = "rec_set"])
       ELSE XLocal([xk EXCEPT !.actual_load = actual_load, !.i = @ + 1,
                              !.pc = IF xk.i < Len(xk.keys) THEN "rec_get" ELSE "rec_done"])
    /\ UNCHANGED <<clock, qvars, bvars, dvars, avars, ck, events, arq, webhook, pubsub>>

\* reconcile_agent_loads: agent.current_load = actual_load; r.set(...); updated += 1
XRecSet ==
    /\ xk.pc = "rec_set"
    /\ agent' = SetAgent([TheValue(xk.a) EXCEPT !.current_load = xk.actual_load])
    /\ XLocal([xk EXCEPT !.i = @ + 1, !.count = @ + 1,
                         !.pc = IF xk.i < Len(xk.keys) THEN "rec_get" ELSE "rec_done"])
    /\ UNCHANGED <<clock, qvars, bvars, dvars, agents_online, ticket_assignee, ak, ck, events, arq, webhook, pubsub>>

\* reconcile_agent_loads: return updated
XRecDone ==
    /\ xk.pc = "rec_done"
    /\ XLocal([xk EXCEPT !.pc = "done", !.ret = Some(xk.count)])
    /\ UNCHANGED <<clock, qvars, bvars, dvars, avars, ck, events, arq, webhook, pubsub>>

\* POST /agents/loads/reconcile, a step at a time
reconcile_loads == XRecStart \/ XRecAgain \/ XRecScan \/ XRecGet \/ XRecCount \/ XRecSet \/ XRecDone

\* The payloads of POST /agents: a seeded agent with another status and load
AgentPayloads ==
    {[SeededAgents[i] EXCEPT !.status = status, !.current_load = load] :
        i \in 1..Len(SeededAgents), status \in {"online", "offline"}, load \in 0..AgentCapacity}

\* POST /agents arrives with one of the payloads; register_agent: r.set(key, payload)
XRegSetOf(payloads) ==
    /\ xk.pc = "idle"
    /\ \E a \in payloads :
          /\ agent' = SetAgent(a)
          /\ XLocal([IdleOperator EXCEPT !.op = "register_agent", !.a = Some(a),
                                         !.pc = "reg_online"])
    /\ UNCHANGED <<clock, qvars, bvars, dvars, agents_online, ticket_assignee, ak, ck, events, arq, webhook, pubsub>>

\* register_agent: r.sadd or r.srem(AGENTS_ONLINE_SET, agent.agent_id)
XRegOnline ==
    /\ xk.pc = "reg_online"
    /\ agents_online' = IF TheValue(xk.a).status = "online"
                        THEN agents_online \cup {TheValue(xk.a).agent_id}
                        ELSE agents_online \ {TheValue(xk.a).agent_id}
    /\ XLocal([xk EXCEPT !.pc = "done"])
    /\ UNCHANGED <<clock, qvars, bvars, dvars, agent, ticket_assignee, ak, ck, events, arq, webhook, pubsub>>

\* POST /agents, a step at a time
\* POST /agents with any payload
XRegSet == XRegSetOf(AgentPayloads)

register_agent == XRegSet \/ XRegOnline

\* main.lifespan at a restart of the API process: seed_mock_agents() is called
XSeedStart ==
    /\ xk.pc = "idle"
    /\ XLocal([IdleOperator EXCEPT !.op = "seed_mock_agents", !.pc = "seed_get", !.i = 1,
                                   !.before = Some(RegistryState)])
    /\ UNCHANGED <<clock, qvars, bvars, dvars, avars, ck, events, arq, webhook, pubsub>>

\* Mutant of Absent: every mock agent is registered, found or not.
Absent_always(found) == TRUE

\* if get_agent(agent.agent_id) is None
Absent(found) == found = None

\* seed_mock_agents: for agent in MOCK_AGENTS: if get_agent(agent.agent_id) is None
XSeedGet ==
    /\ xk.pc = "seed_get"
    /\ IF xk.i > Len(SeededAgents)
       THEN XLocal([xk EXCEPT !.pc = "done", !.ret = Some(xk.count)])
       ELSE IF Absent(get_agent(SeededAgents[xk.i].agent_id))
       THEN XLocal([xk EXCEPT !.pc = "seed_set", !.a = Some(SeededAgents[xk.i])])
       ELSE XLocal([xk EXCEPT !.i = @ + 1])
    /\ UNCHANGED <<clock, qvars, bvars, dvars, avars, ck, events, arq, webhook, pubsub>>

\* seed_mock_agents: register_agent(agent): r.set(key, payload)
XSeedSet ==
    /\ xk.pc = "seed_set"
    /\ agent' = SetAgent(TheValue(xk.a))
    /\ XLocal([xk EXCEPT !.pc = "seed_online"])
    /\ UNCHANGED <<clock, qvars, bvars, dvars, agents_online, ticket_assignee, ak, ck, events,
                   arq, webhook, pubsub>>

\* seed_mock_agents: register_agent(agent): r.sadd(AGENTS_ONLINE_SET, agent_id)
\* (the mock agents are online); seeded += 1
XSeedOnline ==
    /\ xk.pc = "seed_online"
    /\ agents_online' = agents_online \cup {TheValue(xk.a).agent_id}
    /\ XLocal([xk EXCEPT !.pc = "seed_get", !.i = @ + 1, !.count = @ + 1, !.a = None])
    /\ UNCHANGED <<clock, qvars, bvars, dvars, agent, ticket_assignee, ak, ck, events, arq,
                   webhook, pubsub>>

\* seed_mock_agents(), a Redis command at a time
seed_mock_agents == XSeedStart \/ XSeedGet \/ XSeedSet \/ XSeedOnline

\* main.lifespan: seed_mock_agents() on an empty store
AInit ==
    /\ agent = [id \in {SeededAgents[i].agent_id : i \in 1..Len(SeededAgents)} |->
                   CHOOSE a \in {SeededAgents[i] : i \in 1..Len(SeededAgents)} : a.agent_id = id]
    /\ agents_online = {SeededAgents[i].agent_id : i \in 1..Len(SeededAgents)}
    /\ ticket_assignee = << >>
    /\ ak = [w \in Workers |-> IdleJob]

\* main.lifespan could not seed the agents (lines 47-49): the registry is empty.
AInitEmpty ==
    /\ agent = << >>
    /\ agents_online = {}
    /\ ticket_assignee = << >>
    /\ ak = [w \in Workers |-> IdleJob]

HInit ==
    /\ ck = [c \in Consumers |-> IdleRequest]
    /\ xk = IdleOperator
    /\ events = << >>
    /\ arq = [pending |-> << >>, accepted |-> {}, taken |-> 0]

\* config.WEBHOOK_URL = os.environ.get("WEBHOOK_URL", ""): unset
NoWebhook == webhook = [url |-> "", posts |-> << >>]

\* start_redis_subscriber() at startup: the thread has subscribed and listens
Subscribed ==
    pubsub = [reachable |-> TRUE, sub |-> "listening", broken |-> FALSE, inbox |-> << >>,
              outages |-> 0, last |-> None]

Init ==
    clock = Epoch /\ QInit /\ BInit /\ DInit /\ AInit /\ HInit /\ NoWebhook /\ Subscribed

InitNoAgents ==
    clock = Epoch /\ QInit /\ BInit /\ DInit /\ AInitEmpty /\ HInit /\ NoWebhook /\ Subscribed

(***************************************************************************)
(* Specifications: the queue under workers and consumers; the breaker      *)
(* under concurrent workers; the breaker with calls one at a time; the     *)
(* deduplication engine with calls one at a time.                          *)
(***************************************************************************)
AddProcessed == \E routed \in RoutedTicket : add_processed(routed)

PopNext == \E c \in Consumers : pop_next(c)

NextQueue == AddProcessed \/ PopNext

SpecQueue == Init /\ [][NextQueue]_vars

\* Workers call concurrently, a Redis command at a time; they score one text
\* and the clock moves by whole cooldowns.
ScoreUrgency == \E w \in Workers : Start(w, {"general question"}) \/ CallStep(w)

NextBreaker == ScoreUrgency \/ Tick(CooldownInstants)

SpecBreaker == Init /\ [][NextBreaker]_vars

\* With calls one at a time it does not matter which worker makes them.
ScoreUrgencySeq ==
    LET w == CHOOSE w \in Workers : TRUE IN (Quiescent /\ Start(w, Texts)) \/ CallStep(w)

NextBreakerSeq == ScoreUrgencySeq \/ Tick(BreakerInstants)

SpecBreakerSeq == Init /\ [][NextBreakerSeq]_vars

\* Calls one at a time, by one of the workers.
CheckAndRecordSeq ==
    LET w == CHOOSE w \in Workers : TRUE IN (DQuiescent /\ DStart(w)) \/ DedupStep(w)

\* A call takes less than the clock's grain: time passes between calls.
NextDedupSeq == CheckAndRecordSeq \/ (DQuiescent /\ Tick(DedupInstants))

SpecDedupSeq == Init /\ [][NextDedupSeq]_vars

\* Workers run check_and_record concurrently, a Redis command at a time, on a
\* flood of like tickets, each submitted once; the flood is over before the
\* clock moves.
NextDedup == \E w \in Workers : DStartFlood(w) \/ DedupStep(w)

SpecDedup == Init /\ [][NextDedup]_vars

\* No job and no request is in progress.
AllIdle ==
    /\ DQuiescent
    /\ \A w \in Workers : ak[w].pc = "idle"
    /\ \A c \in Consumers : ck[c].pc = "idle"
    /\ xk.pc = "idle"

\* A worker's whole job: check_and_record, then the rest.
process_ticket(w, tids, embeddings, limit, scores, categories) ==
    \/ ak[w].pc = "idle" /\ DStartWith(w, tids, embeddings, limit)
    \/ DedupCall(w) \/ AfterDedup(w, scores, categories) \/ JobStep(w)

\* Jobs for like technical tickets of one urgency, GET /tickets/next
\* requests and POST /incidents/{id}/close requests, one at a time, with
\* time passing between them; a second incident may be created. No agent
\* is registered: the tickets stay unassigned.
NextIncidentsSeq ==
    LET w == CHOOSE w \in Workers : TRUE
        c == CHOOSE c \in Consumers : TRUE
    IN  \/ /\ AllIdle \/ dk[w].pc # "idle" \/ ak[w].pc # "idle"
           /\ process_ticket(w, IF AllIdle THEN DedupTicketIds ELSE {}, SimilarEmbeddings,
                             MaxIncidents + 1, {0}, {"Technical"})
        \/ (AllIdle \/ ck[c].pc # "idle") /\ get_next_ticket(c)
        \/ (AllIdle \/ xk.pc # "idle") /\ (close_incident \/ XReturn)
        \/ AllIdle /\ Tick(DedupInstants)

SpecIncidentsSeq == InitNoAgents /\ [][NextIncidentsSeq]_vars

\* Jobs for a flood of like technical tickets, each submitted once, run by
\* a worker; GET /tickets/next requests by a consumer; the
\* operator's POST /incidents/{id}/close and DELETE /queue requests: all
\* interleaved, a Redis command at a time. No agent is registered.
NextIncidents ==
    \/ LET w == CHOOSE w \in Workers : TRUE IN
          process_ticket(w, {tid \in DedupTicketIds : Unsubmitted(tid)}, {<<100, 0>>},
                         MaxIncidents, {0}, {"Technical"})
    \/ LET c == CHOOSE c \in Consumers : TRUE IN get_next_ticket(c)
    \/ close_incident \/ reset_queue_unassigned \/ XReturn

SpecIncidents == InitNoAgents /\ [][NextIncidents]_vars

\* The rest of a job from add_processed on (check_and_record neither reads
\* nor writes the registry), for a ticket that may have been submitted before
route_and_assign(w, tids, scores, categories) ==
    \/ /\ ak[w].pc = "idle"
       /\ \E tid \in tids : \E score \in scores : \E category \in categories :
             JStartWith(w, tid, score, category)
       /\ UNCHANGED <<clock, qvars, bvars, dvars, agent, agents_online, ticket_assignee, hvars>>
    \/ JobStep(w)

MaxBatch == 2        \* POST /tickets/batch carries up to this many tickets

\* Tickets that no request has submitted yet
Fresh == DedupTicketIds \ arq.accepted

\* Mutant of enqueue_job: a job is enqueued twice.
enqueue_job_twice(pending, payload) == Append(Append(pending, payload), payload)

\* pool.enqueue_job("process_ticket", payload): one more job in the ARQ queue
enqueue_job(pending, payload) == Append(pending, payload)

\* POST /tickets with a valid ticket: the job is enqueued, ticket_accepted
\* is emitted and 202 is returned
submit_ticket ==
    /\ \E tid \in Fresh :
          /\ arq' = [arq EXCEPT !.pending = enqueue_job(@, tid), !.accepted = @ \cup {tid}]
          /\ events' = emit("ticket_accepted", tid)
    /\ UNCHANGED <<clock, qvars, bvars, dvars, avars, ck, xk, webhook, pubsub>>

\* POST /tickets/batch with two valid tickets: for p in payloads, the job is
\* enqueued and ticket_accepted is emitted
submit_tickets_batch ==
    /\ \E first \in Fresh : \E second \in Fresh \ {first} :
          /\ arq' = [arq EXCEPT !.pending = enqueue_job(enqueue_job(@, first), second),
                                !.accepted = @ \cup {first, second}]
          /\ events' = [e \in {events} |->
                           LET one == emit("ticket_accepted", first)
                               all == Append(one, <<"ticket_accepted", second>>)
                           IN  IF Len(all) > MAX_EVENTS
                               THEN SubSeq(all, Len(all) - MAX_EVENTS + 1, Len(all))
                               ELSE all][events]
    /\ UNCHANGED <<clock, qvars, bvars, dvars, avars, ck, xk, webhook, pubsub>>

\* The ARQ worker w takes the oldest job: process_ticket(ctx, payload) begins
\* and reaches check_and_record
TakeJob(w, embeddings, limit) ==
    /\ arq.pending # << >>
    /\ ak[w].pc = "idle"
    /\ DEnter(w, {Head(arq.pending)}, embeddings, limit)
    /\ arq' = [arq EXCEPT !.pending = Tail(@), !.taken = @ + 1]
    /\ UNCHANGED <<ck, xk, events, webhook, pubsub>>

\* The steps of the ARQ worker when no agent is registered: it takes a job
\* and runs it to its end, route_ticket finding nobody.
WorkerStep(w) ==
    \/ TakeJob(w, {<<100, 0>>}, MaxIncidents + 1)
    \/ DedupCall(w) \/ AfterDedup(w, {0}, {"Technical"})
    \/ JAddProcessed(w) \/ RouteSmembers(w) \/ RouteSolve(w) \/ JReturn(w)

\* Tickets are submitted once each, one by one or two in a batch; a worker
\* runs the jobs; the API serves a consumer's pops and the operator's queue
\* clears, a request at a time. No agent is registered.
NextSubmit ==
    \/ submit_ticket \/ submit_tickets_batch
    \/ LET w == CHOOSE w \in Workers : TRUE IN WorkerStep(w)
    \/ LET c == CHOOSE c \in Consumers : TRUE IN xk.pc = "idle" /\ get_next_ticket(c)
    \/ (\A c \in Consumers : ck[c].pc = "idle") /\ (reset_queue_unassigned \/ XReturn)

\* The worker is running: a step it can take is taken.
SpecSubmit ==
    /\ InitNoAgents /\ [][NextSubmit]_vars
    /\ WF_vars(LET w == CHOOSE w \in Workers : TRUE IN WorkerStep(w))

\* Whole jobs (check_and_record, add_processed, route_ticket and
\* assign_ticket_to_agent) for like technical tickets of any urgency, and
\* GET /tickets/next requests, one at a time, on the seeded registry.
NextTicketsSeq ==
    LET w == CHOOSE w \in Workers : TRUE
        c == CHOOSE c \in Consumers : TRUE
    IN  \/ /\ AllIdle \/ dk[w].pc # "idle" \/ ak[w].pc # "idle"
           /\ process_ticket(w, IF AllIdle THEN DedupTicketIds ELSE {}, {<<100, 0>>},
                             MaxIncidents, QScores, {"Technical"})
        \/ (AllIdle \/ ck[c].pc # "idle") /\ get_next_ticket(c)

SpecTicketsSeq == Init /\ [][NextTicketsSeq]_vars

\* Whole jobs for like technical tickets of one urgency and DELETE /queue
\* requests, one at a time, on the seeded registry.
NextClearSeq ==
    LET w == CHOOSE w \in Workers : TRUE
    IN  \/ /\ AllIdle \/ dk[w].pc # "idle" \/ ak[w].pc # "idle"
           /\ process_ticket(w, IF AllIdle THEN DedupTicketIds ELSE {}, {<<100, 0>>},
                             MaxIncidents, {0}, {"Technical"})
        \/ (AllIdle \/ xk.pc # "idle") /\ (reset_queue \/ XReturn)

SpecClearSeq == Init /\ [][NextClearSeq]_vars

\* Jobs for technical tickets and the operator's requests on the registry
\* (registering an agent, reconciling and zeroing the loads, each of the two
\* also repeated at once), one at a time, on the seeded registry.
NextRegistry ==
    LET w == CHOOSE w \in Workers : TRUE
    IN  \/ (AllIdle \/ ak[w].pc # "idle")
              /\ route_and_assign(w, TicketIds, {0}, {"Technical"})
        \/ (AllIdle \/ xk.pc # "idle")
              /\ (zero_loads \/ reconcile_loads \/ register_agent \/ XReturn)

SpecRegistry == Init /\ [][NextRegistry]_vars

MaxCandidates == 2  \* the lists given to solve_routing_ilp have up to this many agents

\* Agents that list_online_agents may hand to solve_routing_ilp: registered
\* through POST /agents with a technical or a billing profile, online, with
\* room for a ticket.
CandidateAgents ==
    {a \in [agent_id : {MOCK_AGENTS[i].agent_id : i \in 1..MaxCandidates},
            skill_vector : {MOCK_AGENTS[1].skill_vector, MOCK_AGENTS[2].skill_vector},
            max_concurrent_tickets : 1..(AgentCapacity + 1),
            current_load : 0..AgentCapacity,
            status : {"online"}] : HasCapacity(a)}

\* The lists of up to MaxCandidates such agents, each agent_id at most once
CandidateLists ==
    {agents \in UNION {[1..n -> CandidateAgents] : n \in 0..MaxCandidates} :
        \A i, j \in 1..Len(agents) : agents[i].agent_id = agents[j].agent_id => i = j}

\* A job has reached route_ticket's call of solve_routing_ilp with any of
\* these lists, for a technical or a billing ticket.
InitSolve ==
    /\ clock = Epoch /\ QInit /\ BInit /\ DInit /\ HInit /\ NoWebhook /\ Subscribed
    /\ agent = << >> /\ agents_online = {} /\ ticket_assignee = << >>
    /\ \E agents \in CandidateLists : \E category \in {"Technical", "Billing"} :
          ak = [w \in Workers |->
                  IF w = (CHOOSE v \in Workers : TRUE)
                  THEN [IdleJob EXCEPT !.pc = "solve", !.ticket_id = 1,
                                       !.category = category, !.agents = agents,
                                       !.ids = [i \in 1..Len(agents) |-> agents[i].agent_id],
                                       !.i = Len(agents) + 1]
                  ELSE IdleJob]

\* route_ticket returns what solve_routing_ilp returns
NextSolve == \E w \in Workers : RouteSolve(w)

SpecSolve == InitSolve /\ [][NextSolve]_vars

\* Jobs for technical tickets run by concurrent workers, interleaved a Redis
\* command at a time, on the seeded registry.
NextAgents ==
    \E w \in Workers : route_and_assign(w, TicketIds, {0}, {"Technical"})

SpecAgents == Init /\ [][NextAgents]_vars

(***************************************************************************)
(* C1: with no add_processed interleaved, the scores returned by           *)
(* successive pop_next calls never increase, every returned ticket had a   *)
(* score no lower than anything left in the queue, and pop_next returns    *)
(* None only on the empty queue.                                           *)
(***************************************************************************)
C1_PopOrder ==
    /\ \A i \in 1..Len(popLog) : \A j \in 1..Len(popLog) :
          i < j => popLog[i][2].urgency_score >= popLog[j][2].urgency_score
    /\ \A i \in 1..Len(popLog) : \A m \in DOMAIN zset :
          zset[m] <= popLog[i][2].urgency_score
    /\ (qret.op = "pop_next" /\ qret.result = None) => DOMAIN zset = {}

C1_Witness ==
    /\ Len(popLog) >= 2
    /\ popLog[1][2].urgency_score > popLog[2][2].urgency_score
    /\ DOMAIN zset # {}

(***************************************************************************)
(* C2: pops by several consumers never hand out the same queue member      *)
(* twice, and a member that was handed out is no longer queued.            *)
(***************************************************************************)
C2_PopOnce ==
    /\ \A i \in 1..Len(popLog) : \A j \in 1..Len(popLog) :
          i # j => popLog[i][2] # popLog[j][2]
    /\ \A i \in 1..Len(popLog) : json_dumps(popLog[i][2]) \notin DOMAIN zset

C2_Witness ==
    /\ Len(popLog) >= 2
    /\ popLog[1][1] # popLog[2][1]
    /\ popLog[1][2].urgency_score = popLog[2][2].urgency_score

(***************************************************************************)
(* C3: the queue holds at most one entry per ticket_id.                    *)
(***************************************************************************)
C3_OnePerTicketId ==
    \A a \in DOMAIN zset : \A b \in DOMAIN zset : a[1] = b[1] => a = b

(***************************************************************************)
(* What the breaker claims speak of: a finished call, and a transformer    *)
(* invocation that raised or took longer than the cap.                     *)
(***************************************************************************)
Finished(w) == wk[w].pc = "done"

Invoked(w) == wk[w].out # None

InvocationFailed(w) ==
    /\ Invoked(w)
    /\ \/ TheValue(wk[w].out).err
       \/ TheValue(wk[w].out).latency_ms > TRANSFORMER_LATENCY_MS

\* The three writes that open the breaker at the call's time.
OpensBreaker(w) ==
    <<<<"state", Some("open")>>, <<"opened_at", Some(wk[w].now)>>, <<"probes", None>>>>

(***************************************************************************)
(* C4: a call that found the breaker closed invokes the transformer; it    *)
(* writes state=open, opened_at=its time, probes deleted and returns the   *)
(* baseline score exactly when the invocation raised or took more than     *)
(* TRANSFORMER_LATENCY_MS; otherwise it writes nothing and returns the     *)
(* transformer's score.                                                    *)
(***************************************************************************)
C4_ClosedCall ==
    \A w \in Workers :
        (Finished(w) /\ wk[w].rd = "closed") =>
            /\ Invoked(w)
            /\ IF InvocationFailed(w)
               THEN /\ wk[w].writes = OpensBreaker(w)
                    /\ wk[w].ret = Some(_baseline_urgency(wk[w].text))
               ELSE /\ wk[w].writes = << >>
                    /\ wk[w].ret = Some(TheValue(wk[w].out).S)

\* A closed call whose invocation took exactly the cap: fast enough, the breaker stays closed.
C4_Witness ==
    \E w \in Workers :
        /\ Finished(w) /\ wk[w].rd = "closed" /\ Quiescent
        /\ ~TheValue(wk[w].out).err
        /\ TheValue(wk[w].out).latency_ms = TRANSFORMER_LATENCY_MS
        /\ wk[w].ret = Some(97)
        /\ cb_state \in {None, Some("closed")}

(***************************************************************************)
(* C5: a call that found the breaker open with less than                   *)
(* CIRCUIT_COOLDOWN_SECONDS gone since opened_at returns the baseline      *)
(* score, does not invoke the transformer and writes no breaker key.       *)
(***************************************************************************)
C5_OpenCoolingDown ==
    \A w \in Workers :
        (/\ Finished(w) /\ wk[w].rd = "open"
         /\ wk[w].now - wk[w].opened_at < CIRCUIT_COOLDOWN_SECONDS) =>
            /\ wk[w].ret = Some(_baseline_urgency(wk[w].text))
            /\ ~Invoked(w)
            /\ wk[w].writes = << >>

\* A call one second before the cooldown is over.
C5_Witness ==
    \E w \in Workers :
        /\ Finished(w) /\ wk[w].rd = "open" /\ Quiescent
        /\ wk[w].now - wk[w].opened_at = CIRCUIT_COOLDOWN_SECONDS - 1
        /\ wk[w].ret = Some(85)
        /\ cb_state = Some("open") /\ cb_opened_at = Some(wk[w].opened_at)

(***************************************************************************)
(* C6: a call that found the breaker open with the cooldown over has       *)
(* written state=half_open and probes=0, and nothing else, by the time it  *)
(* invokes the transformer; and the state key never goes from open         *)
(* straight to closed.                                                     *)
(***************************************************************************)
C6_OpenToHalfOpen ==
    [][/\ \A w \in Workers :
            (wk[w].rd = "open" /\ ~Invoked(w) /\ wk'[w].out # None) =>
                wk[w].writes = <<<<"state", Some("half_open")>>, <<"probes", Some(0)>>>>
       /\ ~(cb_state = Some("open") /\ cb_state' = Some("closed"))]_vars

(***************************************************************************)
(* C7: with calls one at a time, the state key goes from half_open to      *)
(* closed only in a call whose probes count is at least                    *)
(* CIRCUIT_HALF_OPEN_PROBES; between calls a half-open breaker has counted *)
(* 1..N successful probes; and the call that finds N of them closes the    *)
(* breaker (and leaves it closed when its own invocation succeeds).        *)
(***************************************************************************)
C7_HalfOpenCloses ==
    [][/\ (cb_state = Some("half_open") /\ cb_state' = Some("closed")) =>
            \E w \in Workers :
                /\ wk[w].pc = "set_closed"
                /\ wk[w].probes >= CIRCUIT_HALF_OPEN_PROBES
       /\ (Quiescent /\ cb_state = Some("half_open")) =>
            cb_probes \in {Some(k) : k \in 1..CIRCUIT_HALF_OPEN_PROBES}
       /\ \A w \in Workers :
            (/\ wk[w].pc # "done" /\ wk'[w].pc = "done"
             /\ wk[w].rd = "half_open"
             /\ wk[w].probes >= CIRCUIT_HALF_OPEN_PROBES
             /\ ~InvocationFailed(w)') =>
                /\ cb_state' = Some("closed")
                /\ cb_probes' = None]_vars

\* The breaker was closed by a call that found three successful probes.
C7_Witness ==
    \E w \in Workers :
        /\ Finished(w) /\ Quiescent
        /\ wk[w].rd = "half_open" /\ wk[w].probes = CIRCUIT_HALF_OPEN_PROBES
        /\ cb_state = Some("closed") /\ cb_probes = None

(***************************************************************************)
(* C8: every finished call returned a score in [0, 1], never an error; a   *)
(* call whose invocation raised or was too slow returned the baseline      *)
(* score, whatever state it found the breaker in.                          *)
(***************************************************************************)
C8_NoErrorEscapes ==
    \A w \in Workers :
        Finished(w) =>
            /\ wk[w].ret \in {Some(s) : s \in 0..100}
            /\ InvocationFailed(w) => wk[w].ret = Some(_baseline_urgency(wk[w].text))

\* A probe that raised in half_open: the caller got the baseline score.
C8_Witness ==
    \E w \in Workers :
        /\ Finished(w)
        /\ wk[w].rd = "half_open"
        /\ Invoked(w) /\ TheValue(wk[w].out).err
        /\ wk[w].ret = Some(25)

(***************************************************************************)
(* C9: a call whose first read of the breaker came after some worker wrote *)
(* state=open does not invoke the transformer before                       *)
(* CIRCUIT_COOLDOWN_SECONDS have passed since that opening (the time the   *)
(* opening call stamps on it).                                             *)
(***************************************************************************)
C9_OpenHoldsForAll ==
    [][\A w \in Workers :
          (~Invoked(w) /\ wk'[w].out # None /\ wk[w].after # None) =>
              clock - TheValue(wk[w].after) >= CIRCUIT_COOLDOWN_SECONDS]_vars

(***************************************************************************)
(* The tickets a check_and_record call is to count: those whose last       *)
(* recording is less than DEDUP_WINDOW_SECONDS before the call (its own    *)
(* ticket among them) and whose embedding is more similar to the call's    *)
(* than DEDUP_SIM_THRESHOLD. A ticket recorded exactly DEDUP_WINDOW_SECONDS*)
(* before the call has left the window.                                    *)
(***************************************************************************)
SimilarInWindow(c) ==
    {t \in DOMAIN recorded :
        /\ recorded[t].at <= c.now
        /\ c.now - recorded[t].at < DEDUP_WINDOW_SECONDS
        /\ cosine_similarity(c.embedding, recorded[t].embedding) > DEDUP_SIM_THRESHOLD}

C11_OneIncidentPerFlood ==
    (/\ DQuiescent
     /\ Cardinality(DOMAIN recorded) = DEDUP_MIN_COUNT + 1
     /\ \A t \in DOMAIN recorded : clock - recorded[t].at < DEDUP_WINDOW_SECONDS
     /\ \A t \in DOMAIN recorded : \A u \in DOMAIN recorded :
            cosine_similarity(recorded[t].embedding, recorded[u].embedding)
                > DEDUP_SIM_THRESHOLD) =>
        /\ incident_next_id = 1
        /\ DOMAIN incident = {1}
        /\ incident[1].status = "open"
        /\ Members(1) = DOMAIN recorded

(***************************************************************************)
(* C12: with jobs, pops and close_incident calls one at a time, between    *)
(* them every ticket id is in the ticket_ids set of at most one incident.  *)
(***************************************************************************)
C12_OneIncidentPerTicket ==
    AllIdle =>
        \A i \in DOMAIN incident : \A j \in DOMAIN incident :
            i # j => Members(i) \cap Members(j) = {}

\* Every incident whose ticket_ids set is empty has status resolved.
EmptyIsResolved ==
    \A i \in DOMAIN incident : Members(i) = {} => incident[i].status = "resolved"

(***************************************************************************)
(* C13 as stated: whenever a job or a request completes, whatever else is  *)
(* still in progress, every incident whose ticket_ids set is empty has     *)
(* status resolved.                                                        *)
(***************************************************************************)
C13_EmptyResolvedAtEveryReturn ==
    [][(\/ \E w \in Workers : ak[w].pc # "done" /\ ak'[w].pc = "done"
        \/ \E c \in Consumers : ck[c].pc # "done" /\ ck'[c].pc = "done"
        \/ xk.pc # "done" /\ xk'.pc = "done") => EmptyIsResolved']_vars

(***************************************************************************)
(* C13, amended: whenever no job and no request is in progress, every      *)
(* incident whose ticket_ids set is empty has status resolved.             *)
(***************************************************************************)
C13_EmptyResolvedWhenIdle == AllIdle => EmptyIsResolved

\* An incident emptied by pops and a queue clear, and so resolved, with
\* none of its tickets left in the queue.
C13_Witness ==
    /\ AllIdle
    /\ \E i \in DOMAIN incident : Members(i) = {} /\ incident[i].status = "resolved"
    /\ popLog # << >>
    /\ DOMAIN zset = {}
    /\ events = <<<<"queue_cleared", 0>>>>
    /\ DOMAIN ticket_incident = {}

\* Every agent's current_load is the number of ticket_assignee entries naming it.
LoadsMatchAssignments ==
    \A id \in DOMAIN agent : agent[id].current_load = Cardinality(tickets_for_agent(id))

(***************************************************************************)
(* C14: whenever no job and no request is in progress, every agent's       *)
(* current_load equals the number of ticket_assignee entries naming it.    *)
(***************************************************************************)
C14_LoadIsAssignmentCount == AllIdle => LoadsMatchAssignments


(***************************************************************************)
(* C15: once the workers' jobs have completed, no agent's current_load     *)
(* exceeds its max_concurrent_tickets or is below 0.                       *)
(***************************************************************************)
LoadsWithinCapacity ==
    \A id \in DOMAIN agent :
        /\ agent[id].current_load >= 0
        /\ agent[id].current_load <= agent[id].max_concurrent_tickets

C15_LoadWithinCapacity == AllIdle => LoadsWithinCapacity


(***************************************************************************)
(* C16: when reconcile_agent_loads has returned, with nothing else in      *)
(* progress, every agent's current_load is the number of ticket_assignee   *)
(* entries naming it and the value returned is the number of agents whose  *)
(* load the call changed; a call repeated at once leaves the registry as   *)
(* it found it and returns 0.                                              *)
(***************************************************************************)
ChangedLoads(before) ==
    {id \in DOMAIN agent :
        id \notin DOMAIN before.agent
        \/ agent[id].current_load # before.agent[id].current_load}

C16_ReconcileExactAndIdempotent ==
    (xk.pc = "done" /\ xk.op = "reconcile_loads") =>
        /\ LoadsMatchAssignments
        /\ xk.ret = Some(Cardinality(ChangedLoads(TheValue(xk.before))))
        /\ xk.calls = 2 => (RegistryState = TheValue(xk.before) /\ xk.ret = Some(0))

\* a repeated reconcile has returned, after a first call that repaired a load
C16_Witness ==
    /\ xk.pc = "done" /\ xk.op = "reconcile_loads" /\ xk.calls = 2
    /\ xk.first \notin {None, Some(0)}
    /\ DOMAIN ticket_assignee # {}

(***************************************************************************)
(* C17: when force_zero_all_loads has returned, with nothing else in       *)
(* progress, every agent's current_load is 0 and no ticket_assignee entry  *)
(* exists; a call repeated at once leaves the registry as it found it and  *)
(* reports 0 agents zeroed.                                                *)
(***************************************************************************)
C17_ZeroExactAndIdempotent ==
    (xk.pc = "done" /\ xk.op = "zero_loads") =>
        /\ \A id \in DOMAIN agent : agent[id].current_load = 0
        /\ DOMAIN ticket_assignee = {}
        /\ xk.calls = 2 => (RegistryState = TheValue(xk.before) /\ xk.ret = Some(0))

\* a repeated zeroing has returned, after a first call that found an
\* assignment to delete and zeroed a load
C17_Witness ==
    /\ xk.pc = "done" /\ xk.op = "zero_loads" /\ xk.calls = 2
    /\ xk.first \notin {None, Some(0)}
    /\ popLog = << >> /\ DOMAIN zset # {}


(***************************************************************************)
(* C18: when route_ticket has returned, with nothing else in progress, the *)
(* agent it returned is in the online set, has status online and has       *)
(* current_load < max_concurrent_tickets, and it has returned None exactly *)
(* when the registry holds no such agent.                                  *)
(***************************************************************************)
Available(id) ==
    /\ id \in agents_online
    /\ id \in DOMAIN agent
    /\ agent[id].status = "online"
    /\ agent[id].current_load < agent[id].max_concurrent_tickets

C18_RoutesToAvailableAgent ==
    \A w \in Workers :
        /\ ak[w].pc = "assign_set" =>
               /\ ak[w].agent_id # None
               /\ Available(TheValue(ak[w].agent_id))
        /\ (ak[w].pc = "done" /\ ak[w].agent_id = None) =>
               \A id \in agents_online : ~Available(id)

\* route_ticket has returned an agent although another agent of the online
\* set was read and left out
C18_Witness ==
    \E w \in Workers :
        /\ ak[w].pc = "assign_set"
        /\ Len(ak[w].agents) < Len(ak[w].ids)


(***************************************************************************)
(* C19: for a non-empty list of candidates solve_routing_ilp returns the   *)
(* agent at the lowest index among those of maximal score (skill match     *)
(* minus ROUTING_LOAD_PENALTY_FACTOR * current_load / capacity), which is  *)
(* the agent np.argmax over the scores designates; for an empty list it    *)
(* returns None.                                                           *)
(***************************************************************************)
ArgmaxAgent(category, agents) ==
    IF agents = << >> THEN None
    ELSE Some(agents[argmax(_compute_scores(category, agents))].agent_id)

C19_SolveIsArgmax ==
    \A w \in Workers :
        ak[w].pc \in {"assign_set", "done"} =>
            ak[w].agent_id = ArgmaxAgent(ak[w].category, ak[w].agents)


(***************************************************************************)
(* C20: when GET /tickets/next has returned ticket t, the jobs being over, *)
(* no entry of the priority queue is for t, t has no ticket_assignee entry *)
(* and the agent it was assigned to has a current_load one lower and not   *)
(* below 0, t has no ticket_incident mapping and is not among the tickets  *)
(* of the incident it was mapped to, that incident is resolved if it has   *)
(* no ticket left, and the last event is ticket_popped for t.              *)
(***************************************************************************)
Popped(c) == ck[c].pc = "done" /\ ck[c].ret # None

NotQueued(t) == \A member \in DOMAIN zset : json_loads(member).ticket_id # t

Released(c) ==
    /\ get_assignee(ck[c].ticket_id) = None
    /\ (ck[c].agent_id # None /\ ck[c].a # None) =>
           LET id == TheValue(ck[c].agent_id) IN
           /\ agent[id].current_load = TheValue(ck[c].a).current_load - 1
           /\ agent[id].current_load >= 0

Unlinked(c) ==
    /\ _get_incident_for_ticket(ck[c].ticket_id) = None
    /\ ck[c].incident_id # None =>
           LET id == TheValue(ck[c].incident_id) IN
           /\ ck[c].ticket_id \notin Members(id)
           /\ Members(id) = {} => incident[id].status = "resolved"

PopEmitted(c) ==
    /\ events # << >>
    /\ events[Len(events)] = <<"ticket_popped", ck[c].ticket_id>>

C20_PopReleasesTicket ==
    \A c \in Consumers :
        Popped(c) => NotQueued(ck[c].ticket_id) /\ Released(c) /\ Unlinked(c) /\ PopEmitted(c)


(***************************************************************************)
(* C21: when DELETE /queue has returned, with nothing else in progress,    *)
(* the priority queue is empty and a pop finds nothing, no ticket that was *)
(* queued has a ticket_incident mapping, every agent's current_load is 0   *)
(* and no ticket_assignee entry exists.                                    *)
(***************************************************************************)
C21_QueueClearLeavesNothing ==
    (xk.pc = "done" /\ xk.op = "reset_queue") =>
        /\ DOMAIN zset = {}
        /\ ZPOPMAX(zset).popped = None
        /\ \A i \in 1..Len(xk.snapshot) :
               _get_incident_for_ticket(xk.snapshot[i]) = None
        /\ \A id \in DOMAIN agent : agent[id].current_load = 0
        /\ DOMAIN ticket_assignee = {}

\* a clear of two queued tickets has returned; the last of them was in an
\* incident and an agent's load was zeroed
C21_Witness ==
    /\ xk.pc = "done" /\ xk.op = "reset_queue"
    /\ Len(xk.snapshot) >= 2
    /\ xk.incident_id # None
    /\ xk.count > 0


(***************************************************************************)
(* C22: every ticket accepted by POST /tickets or POST /tickets/batch has  *)
(* exactly one job; with the worker running, a ticket whose job is pending *)
(* is eventually in the priority queue; and a queued ticket stays in the   *)
(* queue until a pop returns it or the queue is cleared.                   *)
(***************************************************************************)
OneJobPerAccepted == Len(arq.pending) + arq.taken = Cardinality(arq.accepted)

JobPending(tid) == \E i \in 1..Len(arq.pending) : arq.pending[i] = tid

Queued(tid) == \E member \in DOMAIN zset : json_loads(member).ticket_id = tid

LeavesByPopOrClear ==
    \A member \in DOMAIN zset :
        member \notin DOMAIN zset' =>
            \/ qret'.op = "pop_next" /\ qret'.result = Some(json_loads(member))
            \/ qret'.op = "clear_all"

NotProcessed == {tid \in TicketIds : \A m \in DOMAIN zset : json_loads(m).ticket_id # tid}

NextBuild ==
    LET w == CHOOSE w \in Workers : TRUE
    IN  \/ /\ ak[w].pc = "idle"
           /\ \E tid \in NotProcessed : \E S \in UrgencyScores :
                 JStartWith(w, tid, S, "Technical")
           /\ UNCHANGED <<clock, qvars, bvars, dvars, agent, agents_online,
                          ticket_assignee, hvars>>
        \/ JAddProcessed(w) \/ RouteSmembers(w) \/ RouteSolve(w) \/ JReturn(w)

SpecBuild == InitNoAgents /\ [][NextBuild]_vars

\* A job of worker w has built its routed ticket
Built(w) == ak[w].pc # "idle"

\* C23: for every urgency score S in [0, 1], the routed ticket a job has built
\* has is_urgent exactly when S >= 0.5, and a priority_score p in 0..10 that
\* is 10 S rounded: p is within one half of 10 S, and when 10 S lies half way
\* between two integers p is the even one (the rounding of the language).
C23_DerivedFields ==
    \A w \in Workers : Built(w) =>
        LET S == ak[w].urgency_score
            p == ak[w].priority_score
        IN  /\ S \in UrgencyScores
            /\ ak[w].is_urgent = (S >= 50)
            /\ p \in 0..10
            /\ 10 * p - S <= 5 /\ S - 10 * p <= 5
            /\ (10 * p - S = 5 \/ S - 10 * p = 5) => p % 2 = 0

\* a job has built a ticket whose 10 S is half way between two integers, and
\* another ticket at the urgency threshold is on the queue
C23_Witness ==
    /\ \E w \in Workers : Built(w) /\ ak[w].urgency_score % 10 = 5 /\ ak[w].priority_score > 0
    /\ \E m \in DOMAIN zset : json_loads(m).urgency_score = 50

(***************************************************************************)
(* The queue with GET /tickets/peek requests among the adds and the pops.  *)
(***************************************************************************)
\* The tickets differ in id and score.
NextPeek ==
    \/ \E routed \in {r \in RoutedTicket : r.subject = 0} : add_processed(routed)
    \/ \E c \in Consumers : pop_next(c) \/ peek_next(c)

SpecPeek == Init /\ [][NextPeek]_vars

\* C24: a peek leaves the members of the queue, their scores and so its size
\* as they were; a pop that comes right after a peek returns the ticket the
\* peek returned; and a peek that comes right after a peek returns the same
\* ticket (or nothing, when the queue is empty).
C24_PeekDoesNotRemove ==
    [][/\ qret' # qret /\ qret'.op = "peek_next" =>
             zset' = zset /\ Cardinality(DOMAIN zset') = Cardinality(DOMAIN zset)
       /\ qret.op = "peek_next" /\ qret'.op \in {"pop_next", "peek_next"} =>
             qret'.result = qret.result]_vars

\* a peek has returned a ticket from a queue of three, two of them with the
\* top score, where the member first in the order is another ticket
C24_Witness ==
    /\ qret.op = "peek_next" /\ qret.result # None
    /\ Cardinality(DOMAIN zset) >= 3
    /\ \E m \in DOMAIN zset : m # ZLast(zset) /\ zset[m] = zset[ZLast(zset)]
    /\ TheValue(qret.result) # json_loads(ZFirst(zset))

(***************************************************************************)
(* The high-urgency webhook: jobs for a flood of like tickets at and above *)
(* the alert threshold, each submitted once and run one at a time by a     *)
(* worker, with WEBHOOK_URL set or unset. No agent is registered.          *)
(***************************************************************************)
InitWebhook ==
    /\ clock = Epoch /\ QInit /\ BInit /\ DInit /\ AInitEmpty /\ HInit /\ Subscribed
    /\ webhook \in [url : {"", "https://hooks.slack.test/T0"}, posts : {<< >>}]

NextWebhook ==
    LET w == CHOOSE w \in Workers : TRUE
    IN  \/ ak[w].pc = "idle" /\ DStartFlood(w)
        \/ DedupCall(w) \/ AfterDedup(w, {80, 81}, {"Technical"})
        \/ JAddProcessed(w) \/ RouteSmembers(w) \/ RouteSolve(w) \/ JReturn(w)

SpecWebhook == InitWebhook /\ [][NextWebhook]_vars

\* Worker w's job ends in this step
JobEnds(w) == ak[w].pc = "done" /\ ak'[w].pc = "idle"

\* This step sends the high-urgency POST for ticket tid
Posts(tid) ==
    /\ Len(webhook'.posts) = Len(webhook.posts) + 1
    /\ SubSeq(webhook'.posts, 1, Len(webhook.posts)) = webhook.posts
    /\ webhook'.posts[Len(webhook'.posts)].ticket_id = tid

\* C25: the step that ends a job sends the high-urgency POST for the job's
\* ticket exactly when WEBHOOK_URL is set, check_and_record did not return
\* suppress_individual_alert to the job and the ticket's urgency_score is
\* above 0.8; no other step sends one; and no POST, failed or not, has made
\* its job fail.
C25_WebhookIffUrgentUnsuppressed ==
    [][/\ \A w \in Workers : JobEnds(w) =>
             (Posts(ak[w].ticket_id) <=>
                 /\ webhook.url # ""
                 /\ ~ak[w].suppress_individual
                 /\ ak[w].urgency_score > 80)
       /\ webhook'.posts # webhook.posts => \E w \in Workers : JobEnds(w)
       /\ \A i \in 1..Len(webhook'.posts) : ~webhook'.posts[i].failed]_vars

\* three jobs are over: a POST was sent for a ticket above the threshold and
\* raised, none was sent for a ticket at the threshold, and none for the
\* ticket above the threshold that the master incident suppressed
C25_Witness ==
    /\ \A w \in Workers : ak[w].pc = "idle" /\ dk[w].pc = "idle"
    /\ Len(webhook.posts) = 1 /\ webhook.posts[1].raised
    /\ incident_next_id = 1
    /\ \E m \in DOMAIN zset : json_loads(m).urgency_score = 80
    /\ \E m \in DOMAIN zset :
          /\ json_loads(m).urgency_score = 81
          /\ json_loads(m).ticket_id = incident[1].root_ticket_id

(***************************************************************************)
(* C26: with calls one at a time, a finished call that had the breaker     *)
(* half_open with fewer than CIRCUIT_HALF_OPEN_PROBES probes counted has   *)
(* invoked the transformer. If the invocation neither raised nor took      *)
(* longer than the cap, the breaker is still half_open, the probes count   *)
(* is one more than the call read, opened_at was not written and the call  *)
(* returned the transformer's score. Otherwise the breaker is open with    *)
(* opened_at the call's time and no probes counted (the key is deleted),   *)
(* and the call returned the baseline score.                               *)
(***************************************************************************)
C26_HalfOpenProbe ==
    \A w \in Workers :
        (/\ Finished(w)
         /\ wk[w].state = "half_open"
         /\ wk[w].probes < CIRCUIT_HALF_OPEN_PROBES) =>
            /\ Invoked(w)
            /\ IF InvocationFailed(w)
               THEN /\ cb_state = Some("open")
                    /\ cb_opened_at = Some(wk[w].now)
                    /\ cb_probes = None
                    /\ wk[w].ret = Some(_baseline_urgency(wk[w].text))
               ELSE /\ cb_state = Some("half_open")
                    /\ cb_probes = Some(wk[w].probes + 1)
                    /\ \A i \in 1..Len(wk[w].writes) : wk[w].writes[i][1] # "opened_at"
                    /\ wk[w].ret = Some(TheValue(wk[w].out).S)

\* a probe failed in a half-open breaker that had counted a successful probe
C26_Witness ==
    \E w \in Workers :
        /\ Finished(w) /\ wk[w].state = "half_open" /\ wk[w].rd = "half_open"
        /\ wk[w].probes >= 1 /\ wk[w].probes < CIRCUIT_HALF_OPEN_PROBES
        /\ InvocationFailed(w)

(***************************************************************************)
(* Links between tickets and incidents: a worker's jobs for like tickets,  *)
(* whose ids may be submitted again, and a consumer's GET /tickets/next    *)
(* requests, interleaved a Redis command at a time; a second incident may  *)
(* be created. No agent is registered.                                     *)
(***************************************************************************)
NextLinks ==
    \/ LET w == CHOOSE w \in Workers : TRUE IN
          \/ ak[w].pc = "idle" /\ DStartWith(w, DedupTicketIds, {<<100, 0>>}, MaxIncidents + 1)
          \/ DedupCall(w) \/ AfterDedup(w, {0}, {"Technical"})
          \/ JAddProcessed(w) \/ RouteSmembers(w) \/ RouteSolve(w) \/ JReturn(w)
    \/ LET c == CHOOSE c \in Consumers : TRUE IN get_next_ticket(c)

SpecLinks == InitNoAgents /\ [][NextLinks]_vars

\* C27: whenever no job and no request is in progress, every ticket that
\* ticket_incident:{tid} maps to an incident is a member of that incident's
\* incident_tickets set.
C27_LinkedIsMember ==
    AllIdle => \A tid \in DOMAIN ticket_incident : tid \in Members(ticket_incident[tid])

(***************************************************************************)
(* Releases: jobs from add_processed on for technical tickets of one       *)
(* urgency that are not on the queue, GET /tickets/next requests and POST  *)
(* /agents registrations of agents that come online or go offline with no  *)
(* load, one at a time, on the seeded registry.                            *)
(***************************************************************************)
NextRelease ==
    LET w == CHOOSE w \in Workers : TRUE
        c == CHOOSE c \in Consumers : TRUE
    IN  \/ /\ AllIdle \/ ak[w].pc # "idle"
           /\ route_and_assign(w, IF AllIdle THEN NotProcessed ELSE {}, {0}, {"Technical"})
        \/ (AllIdle \/ ck[c].pc # "idle") /\ get_next_ticket(c)
        \/ /\ AllIdle \/ xk.pc # "idle"
           /\ \/ XRegSetOf({a \in AgentPayloads : a.current_load = 0})
              \/ XRegOnline \/ XReturn

SpecRelease == Init /\ [][NextRelease]_vars

\* release_ticket_from_agent has returned to consumer c's request
Released_by(c) == ck[c].before # None /\ ck[c].pc \in {"rm_get", "emit", "done"}

\* C28: with calls one at a time, once release_ticket_from_agent(tid) has
\* returned: if tid had an assignee, that agent's current_load is one less
\* than before, or 0 if it was 0, the rest of its record and every other
\* agent's record are as before, and the mappings are those of before
\* without tid's; if tid had no assignee, the agents' records and the
\* mappings are as before.
C28_ReleaseFrame ==
    \A c \in Consumers : Released_by(c) =>
        LET b == TheValue(ck[c].before)
            tid == ck[c].ticket_id
        IN  IF tid \in DOMAIN b.ticket_assignee
            THEN /\ DOMAIN ticket_assignee = DOMAIN b.ticket_assignee \ {tid}
                 /\ \A t \in DOMAIN ticket_assignee : ticket_assignee[t] = b.ticket_assignee[t]
                 /\ DOMAIN agent = DOMAIN b.agent
                 /\ \A id \in DOMAIN agent :
                       IF id = b.ticket_assignee[tid]
                       THEN /\ agent[id].current_load >= 0
                            /\ \/ agent[id].current_load + 1 = b.agent[id].current_load
                               \/ agent[id].current_load = 0 /\ b.agent[id].current_load = 0
                            /\ [agent[id] EXCEPT !.current_load = 0]
                                 = [b.agent[id] EXCEPT !.current_load = 0]
                       ELSE agent[id] = b.agent[id]
            ELSE agent = b.agent /\ ticket_assignee = b.ticket_assignee

\* a release has taken an agent's load from 1 to 0 and deleted the ticket's
\* mapping while another ticket stays assigned
C28_Witness ==
    \E c \in Consumers :
        /\ Released_by(c)
        /\ ck[c].ticket_id \in DOMAIN TheValue(ck[c].before).ticket_assignee
        /\ \E id \in DOMAIN agent :
              agent[id].current_load = 0 /\ TheValue(ck[c].before).agent[id].current_load = 1
        /\ DOMAIN ticket_assignee # {}

\* a release found the load of the ticket's agent at 0 already
C28_FloorReached ==
    \E c \in Consumers :
        /\ Released_by(c)
        /\ ck[c].ticket_id \in DOMAIN TheValue(ck[c].before).ticket_assignee
        /\ LET b == TheValue(ck[c].before)
           IN  b.agent[b.ticket_assignee[ck[c].ticket_id]].current_load = 0

(***************************************************************************)
(* Whole jobs for a flood of like technical tickets, each submitted once,  *)
(* run by a worker on the seeded registry: the last job creates a master   *)
(* incident, and the agents run out of capacity.                           *)
(***************************************************************************)
NextJobs ==
    LET w == CHOOSE w \in Workers : TRUE
    IN  process_ticket(w, {tid \in DedupTicketIds : Unsubmitted(tid)}, {<<100, 0>>},
                       MaxIncidents, QScores, {"Technical"})

SpecJobs == Init /\ [][NextJobs]_vars

\* The member of the sorted set that worker w's job has for its ticket
MemberOf(w) == <<ak[w].ticket_id, 0, ak[w].urgency_score>>

\* C29: a process_ticket job that has reached its end has its routed ticket
\* on the priority queue with the ticket's urgency_score as score, whether
\* check_and_record linked the ticket to a master incident or not and
\* whether route_ticket found an agent or not.
C29_CompletedJobQueued ==
    \A w \in Workers : ak[w].pc = "done" =>
        MemberOf(w) \in DOMAIN zset /\ zset[MemberOf(w)] = ak[w].urgency_score

\* a job has reached its end for a ticket that is linked to a master incident
\* and found no agent, after a job whose ticket was assigned to an agent
C29_Witness ==
    \E w \in Workers :
        /\ ak[w].pc = "done"
        /\ ak[w].suppress_individual /\ ak[w].ticket_id \in DOMAIN ticket_incident
        /\ ak[w].agent_id = None
        /\ DOMAIN ticket_assignee # {}
        /\ MemberOf(w) \in DOMAIN zset

(***************************************************************************)
(* Two workers run check_and_record concurrently, a Redis command at a     *)
(* time, on a flood of tickets with one embedding, each submitted once.    *)
(***************************************************************************)
NextCreators ==
    \E w \in {v \in Workers : v <= 2} :
        \/ \E tid \in DedupTicketIds :
              Unsubmitted(tid) /\ DStartWith(w, {tid}, {<<100, 0>>}, MaxIncidents)
        \/ DedupStep(w)

SpecCreators == Init /\ [][NextCreators]_vars

\* The incident ids allocated so far: those of the incidents written and
\* those the calls in progress hold
AllocatedIds == DOMAIN incident \cup ({dk[w].incident_id : w \in Workers} \ {0})

\* C30: with workers creating incidents concurrently, the id a call is
\* allocated is greater than every id allocated before it, so no two
\* allocations give the same id; and the incident a call writes is a new
\* one, under the id the call was allocated.
C30_IncidentIdsDistinctIncreasing ==
    [][\A w \in Workers :
          /\ (dk[w].pc = "incr" /\ dk'[w].pc = "hset") =>
                \A i \in AllocatedIds : dk'[w].incident_id > i
          /\ (dk[w].pc = "hset" /\ dk'[w].pc # "hset") =>
                /\ dk[w].incident_id \notin DOMAIN incident
                /\ DOMAIN incident' = DOMAIN incident \cup {dk[w].incident_id}]_vars

\* two workers are creating incidents at the same time and both incidents
\* are written, rooted at different tickets
C30_Witness ==
    /\ \E v, w \in Workers :
          /\ v # w /\ dk[v].incident_id # 0 /\ dk[w].incident_id # 0
          /\ {dk[v].incident_id, dk[w].incident_id} \subseteq DOMAIN incident
    /\ \E i, j \in DOMAIN incident :
          i < j /\ incident[i].root_ticket_id # incident[j].root_ticket_id

(***************************************************************************)
(* Jobs for a flood of like technical tickets, each submitted once, GET    *)
(* /tickets/next requests and POST /incidents/{id}/close requests, one at  *)
(* a time. No agent is registered.                                         *)
(***************************************************************************)
NextClose ==
    LET w == CHOOSE w \in Workers : TRUE
        c == CHOOSE c \in Consumers : TRUE
    IN  \/ /\ AllIdle \/ dk[w].pc # "idle" \/ ak[w].pc # "idle"
           /\ process_ticket(w, {tid \in DedupTicketIds : AllIdle /\ Unsubmitted(tid)},
                             {<<100, 0>>}, MaxIncidents, {0}, {"Technical"})
        \/ (AllIdle \/ ck[c].pc # "idle") /\ get_next_ticket(c)
        \/ (AllIdle \/ xk.pc # "idle") /\ (close_incident \/ XReturn)

SpecClose == InitNoAgents /\ [][NextClose]_vars

\* The operator's request changes nothing of the store but the incident hashes
CloseFrame ==
    UNCHANGED <<clock, qvars, bvars, avars, ck, events, arq, webhook, pubsub, dd_window,
                dd_meta,
                incident_next_id, incident_tickets, ticket_incident, recorded, dk>>

\* C31: close_incident(id) on an existing incident sets its status to
\* resolved and returns True, leaving the incident's root, the other
\* incidents, every ticket_ids set and every ticket_incident link as they
\* were; on an unknown id it returns False and changes nothing.
C31_CloseIncident ==
    [][(xk'.op = "close_incident" /\ xk' # xk) =>
          /\ CloseFrame
          /\ xk'.pc = "done" =>
                LET id == TheValue(xk.incident_id) IN
                IF id \in DOMAIN incident
                THEN /\ xk'.ret = Some(TRUE)
                     /\ DOMAIN incident' = DOMAIN incident
                     /\ incident'[id] = [incident[id] EXCEPT !.status = "resolved"]
                     /\ \A i \in DOMAIN incident \ {id} : incident'[i] = incident[i]
                ELSE xk'.ret = Some(FALSE) /\ incident' = incident]_vars

\* close_incident has returned True for an incident that still has tickets
C31_Witness ==
    /\ xk.op = "close_incident" /\ xk.pc = "done" /\ xk.ret = Some(TRUE)
    /\ Members(TheValue(xk.incident_id)) # {}
    /\ \E tid \in DOMAIN ticket_incident : ticket_incident[tid] = TheValue(xk.incident_id)

\* close_incident has returned False for an id that was never allocated
C31_UnknownId ==
    /\ xk.op = "close_incident" /\ xk.pc = "done" /\ xk.ret = Some(FALSE)
    /\ DOMAIN incident # {}

(***************************************************************************)
(* check_and_record calls one at a time on a flood of like tickets, one    *)
(* more than a flood needs, with time passing between the calls: up to a   *)
(* second past the window.                                                 *)
(***************************************************************************)
WindowInstants ==
    {Epoch + (i \div 2) * DEDUP_WINDOW_SECONDS + (i % 2) : i \in 0..(MaxTick + 1)}

NextWindow ==
    LET w == CHOOSE w \in Workers : TRUE
    IN  \/ DQuiescent /\ DStartWith(w, 1..(MaxDedupTicket + 1), {<<100, 0>>}, MaxIncidents)
        \/ DedupStep(w)
        \/ DQuiescent /\ Tick(WindowInstants)

SpecWindow == Init /\ [][NextWindow]_vars

\* The tickets last recorded more than DEDUP_WINDOW_SECONDS before call c
RecordedBeforeWindow(c) ==
    {t \in DOMAIN recorded : recorded[t].at < c.now - DEDUP_WINDOW_SECONDS}

\* C32: a finished check_and_record call has counted no ticket that was
\* recorded more than DEDUP_WINDOW_SECONDS before it in its similar list and
\* has linked none into the incident it created; and the window it leaves
\* holds no entry with a score below the call's horizon now - W.
C32_WindowHorizon ==
    \A w \in Workers :
        dk[w].pc = "done" =>
            LET c == dk[w] IN
            /\ \A t \in RecordedBeforeWindow(c) :
                  /\ \A i \in 1..Len(c.similar) : c.similar[i] # t
                  /\ TheValue(c.ret)[4] => t \notin Members(c.incident_id)
            /\ \A t \in DOMAIN dd_window : dd_window[t] >= c.now - DEDUP_WINDOW_SECONDS

\* a call has created an incident from the tickets of the window while a
\* like ticket recorded more than the window before it is left out
C32_Witness ==
    \E w \in Workers :
        /\ dk[w].pc = "done"
        /\ TheValue(dk[w].ret)[4]
        /\ RecordedBeforeWindow(dk[w]) # {}
        /\ \A t \in RecordedBeforeWindow(dk[w]) :
              cosine_similarity(recorded[t].embedding, dk[w].embedding) > DEDUP_SIM_THRESHOLD

(***************************************************************************)
(* The activity bus (app/activity.py): the ring _events of the API         *)
(* process, written under _lock by the handlers' emit calls and by the     *)
(* subscriber thread, which listens on ticket_activity for what the        *)
(* workers publish. The store may become unreachable and reachable again.  *)
(***************************************************************************)
MaxOutages == 1     \* the store becomes unreachable at most this many times

\* _redis_subscriber_thread, lines 54-58: connect and subscribe; an
\* exception ends the thread (line 69)
SubStart ==
    /\ pubsub.sub = "starting"
    /\ pubsub' = [pubsub EXCEPT !.sub = IF pubsub.reachable THEN "listening" ELSE "ended"]
    /\ UNCHANGED <<clock, qvars, bvars, dvars, avars, ck, xk, events, arq, webhook>>

\* for message in pubsub.listen(): emit(event_type, payload.get("data", payload))
SubMessage ==
    /\ pubsub.sub = "listening" /\ ~pubsub.broken /\ pubsub.inbox # << >>
    /\ events' = emit(Head(pubsub.inbox)[1], Head(pubsub.inbox)[2])
    /\ pubsub' = [pubsub EXCEPT !.inbox = Tail(@)]
    /\ UNCHANGED <<clock, qvars, bvars, dvars, avars, ck, xk, arq, webhook>>

\* pubsub.listen() raises on the lost connection: except Exception logs a
\* warning and the thread returns (lines 68-69)
SubFail ==
    /\ pubsub.sub = "listening" /\ pubsub.broken
    /\ pubsub' = [pubsub EXCEPT !.sub = "ended", !.broken = FALSE, !.inbox = << >>]
    /\ UNCHANGED <<clock, qvars, bvars, dvars, avars, ck, xk, events, arq, webhook>>

\* pubsub.listen() where the client library is one that retries: with the
\* store reachable again it reconnects and subscribes again, and listen()
\* goes on without raising
SubRetry ==
    /\ pubsub.sub = "listening" /\ pubsub.broken /\ pubsub.reachable
    /\ pubsub' = [pubsub EXCEPT !.broken = FALSE, !.inbox = << >>]
    /\ UNCHANGED <<clock, qvars, bvars, dvars, avars, ck, xk, events, arq, webhook>>

\* The thread's step
_redis_subscriber_thread == SubStart \/ SubMessage \/ SubFail \/ SubRetry

\* The store becomes unreachable, between the jobs' and the requests' other
\* commands: connections are lost, the subscriber's among them
StoreDown ==
    /\ pubsub.reachable /\ pubsub.outages < MaxOutages
    /\ DQuiescent /\ xk.pc = "idle"
    /\ \A w \in Workers : ak[w].pc \in {"idle", "done"}
    /\ \A c \in Consumers : ck[c].pc = "idle"
    /\ pubsub' = [pubsub EXCEPT !.reachable = FALSE, !.outages = @ + 1, !.last = None,
                                !.broken = (pubsub.sub = "listening")]
    /\ UNCHANGED <<clock, qvars, bvars, dvars, avars, ck, xk, events, arq, webhook>>

\* The store is reachable again
StoreUp ==
    /\ ~pubsub.reachable
    /\ pubsub' = [pubsub EXCEPT !.reachable = TRUE]
    /\ UNCHANGED <<clock, qvars, bvars, dvars, avars, ck, xk, events, arq, webhook>>

\* The API process has started its subscriber thread (main.py 43)
InitBus ==
    /\ clock = Epoch /\ QInit /\ BInit /\ DInit /\ AInitEmpty /\ HInit /\ NoWebhook
    /\ pubsub = [reachable |-> TRUE, sub |-> "starting", broken |-> FALSE, inbox |-> << >>,
                 outages |-> 0, last |-> None]

(***************************************************************************)
(* Jobs for tickets 1..MaxBusTicket, each submitted once and too few for a  *)
(* flood, run by a worker one after the other while the store is           *)
(* reachable; a consumer's GET /tickets/next requests; the subscriber      *)
(* thread; outages of the store. No agent is registered.                   *)
(***************************************************************************)
MaxBusTicket == 2

NextBus ==
    \/ LET w == CHOOSE w \in Workers : TRUE
       IN  \/ /\ ak[w].pc = "idle" /\ pubsub.reachable
              /\ \E tid \in 1..MaxBusTicket :
                    Unsubmitted(tid) /\ DStartWith(w, {tid}, {<<100, 0>>}, MaxIncidents)
           \/ ZaddWindow(w) \/ SetMeta(w) \/ _prune_window(w) \/ RangeWindow(w)
           \/ GetMetas(w) \/ AfterDedup(w, {0}, {"Technical"})
           \/ JAddProcessed(w) \/ RouteSmembers(w) \/ RouteSolve(w) \/ JPublishReturn(w)
    \/ LET c == CHOOSE c \in Consumers : TRUE
       IN  (ck[c].pc # "idle" \/ pubsub.reachable) /\ get_next_ticket(c)
    \/ _redis_subscriber_thread
    \/ StoreDown \/ StoreUp

SpecBus == InitBus /\ [][NextBus]_vars

\* The ring once one more event is appended to it: its last MAX_EVENTS
RingAfter(ring, event) ==
    LET all == Append(ring, event)
        n == IF Len(all) < MAX_EVENTS THEN Len(all) ELSE MAX_EVENTS
    IN  [i \in 1..n |-> all[Len(all) - n + i]]

\* The events whose emit call this step is: a GET /tickets/next request
\* passes its activity_emit line, or the subscriber thread takes the
\* message at the head of its connection
EmittedNow ==
    {<<"ticket_popped", ck[c].ticket_id>> :
        c \in {c \in Consumers : ck[c].pc = "emit" /\ ck'[c].pc # "emit"}}
    \cup (IF pubsub.inbox # << >> /\ pubsub' = [pubsub EXCEPT !.inbox = Tail(@)]
          THEN {Head(pubsub.inbox)} ELSE {})

SpecBusFair ==
    /\ SpecBus
    /\ WF_vars(SubStart) /\ WF_vars(SubMessage) /\ WF_vars(SubFail \/ SubRetry)
    /\ WF_vars(StoreUp)

\* What the workers publish
BusEvents ==
    {"ticket_processed", "ticket_assigned_to_agent", "ticket_linked_to_master_incident",
     "master_incident_created"} \X (1..MaxBusTicket)

InRing(e) == \E i \in 1..Len(events) : events[i] = e

\* C35: an event published on ticket_activity once the store is reachable
\* again after an outage, and after the subscriber's listen() has met that
\* outage, is eventually appended to the activity ring, unless the store
\* becomes unreachable again first.
C35_SubscriberReconnects ==
    \A e \in BusEvents : (pubsub.last = Some(e)) ~> (InRing(e) \/ ~pubsub.reachable)

\* C35, the workers' side: a job that has reached its publish_event calls
\* can always finish, whatever the state of the subscriber and of the store.
C35_JobsNotBlocked ==
    \A w \in Workers : ak[w].pc = "done" => ENABLED JPublishReturn(w)

\* a job has finished, publishing into the void: the subscriber thread has
\* ended and the store is reachable again
C35_ThreadEnded ==
    /\ pubsub.sub = "ended" /\ pubsub.reachable /\ pubsub.last # None
    /\ \A w \in Workers : ak[w].pc = "idle"

(***************************************************************************)
(* Restarts: POST /agents registrations with any status and load and       *)
(* restarts of the API process, one at a time, on a registry that starts   *)
(* empty (the first start could not reach the store).                      *)
(***************************************************************************)
NextSeed == register_agent \/ seed_mock_agents \/ XReturn

SpecSeed == InitNoAgents /\ [][NextSeed]_vars

\* The ids of the mock agents
MockIds == {SeededAgents[i].agent_id : i \in 1..Len(SeededAgents)}

\* C34: once seed_mock_agents has returned, every agent that had a record
\* has the same record (load, status, skills, capacity) and is in the
\* online set exactly if it was; a mock agent that had no record has the
\* record of MOCK_AGENTS and is online; nothing else has changed.
C34_SeedOnlyAbsent ==
    (xk.op = "seed_mock_agents" /\ xk.pc = "done") =>
        LET b == TheValue(xk.before) IN
        /\ DOMAIN agent = DOMAIN b.agent \cup MockIds
        /\ \A id \in DOMAIN b.agent :
              agent[id] = b.agent[id] /\ (id \in agents_online <=> id \in b.agents_online)
        /\ \A i \in 1..Len(SeededAgents) :
              SeededAgents[i].agent_id \notin DOMAIN b.agent =>
                  /\ agent[SeededAgents[i].agent_id] = SeededAgents[i]
                  /\ SeededAgents[i].agent_id \in agents_online
        /\ ticket_assignee = b.ticket_assignee
        /\ xk.ret = Some(Cardinality(MockIds \ DOMAIN b.agent))

\* a restart found one mock agent offline and loaded and left it so, and
\* seeded another that had no record
C34_Witness ==
    /\ xk.op = "seed_mock_agents" /\ xk.pc = "done"
    /\ \E id \in DOMAIN TheValue(xk.before).agent :
          /\ agent[id].status = "offline" /\ agent[id].current_load > 0
          /\ id \notin agents_online
    /\ MockIds \ DOMAIN TheValue(xk.before).agent # {}

(***************************************************************************)
(* A worker's jobs for like technical tickets, each submitted once, and a  *)
(* consumer's GET /tickets/next requests, interleaved a Redis command at a *)
(* time, on the seeded registry.                                           *)
(***************************************************************************)
NextRace ==
    \/ LET w == CHOOSE w \in Workers : TRUE IN
          process_ticket(w, {tid \in DedupTicketIds : Unsubmitted(tid)}, {<<100, 0>>},
                         MaxIncidents, {0}, {"Technical"})
    \/ LET c == CHOOSE c \in Consumers : TRUE IN get_next_ticket(c)

SpecRace == Init /\ [][NextRace]_vars

\* C36: whenever no job and no request is in progress, every ticket with a
\* ticket_assignee entry is on the priority queue: a ticket popped while
\* its job was between add_processed and assign_ticket_to_agent is left
\* with no assignment.
C36_AssignedIsQueued ==
    AllIdle => \A tid \in DOMAIN ticket_assignee : ~NotQueued(tid)

\* C37: whenever no job and no request is in progress, every ticket in the
\* ticket_ids set of an open master incident is on the priority queue: a
\* ticket that has been popped is in no open incident, so an incident whose
\* tickets have all been popped is resolved.
C37_OpenIncidentTicketsQueued ==
    AllIdle =>
        \A id \in DOMAIN incident :
            incident[id].status = "open" => \A tid \in Members(id) : Queued(tid)

\* every ticket of an open incident has been popped
C37_AllPoppedStillOpen ==
    /\ AllIdle /\ DOMAIN zset = {}
    /\ \E id \in DOMAIN incident : incident[id].status = "open" /\ Members(id) # {}

(***************************************************************************)
(* Jobs for like tickets, which may be submitted again, so that a second   *)
(* flood over the same tickets creates a second incident; GET              *)
(* /tickets/next requests and POST /incidents/{id}/close requests: one at  *)
(* a time. No agent is registered.                                         *)
(***************************************************************************)
NextReopen ==
    LET w == CHOOSE w \in Workers : TRUE
        c == CHOOSE c \in Consumers : TRUE
    IN  \/ /\ AllIdle \/ dk[w].pc # "idle" \/ ak[w].pc # "idle"
           /\ process_ticket(w, IF AllIdle THEN DedupTicketIds ELSE {}, {<<100, 0>>},
                             MaxIncidents + 1, {0}, {"Technical"})
        \/ (AllIdle \/ ck[c].pc # "idle") /\ get_next_ticket(c)
        \/ (AllIdle \/ xk.pc # "idle") /\ (close_incident \/ XReturn)

SpecReopen == InitNoAgents /\ [][NextReopen]_vars

\* C38: an incident that is resolved stays resolved: no step of a job, of a
\* pop or of close_incident sets its status back to open or removes it,
\* also when a new flood over the same tickets creates another incident.
C38_ResolvedStaysResolved ==
    [][\A id \in DOMAIN incident :
          incident[id].status = "resolved" =>
              id \in DOMAIN incident' /\ incident'[id].status = "resolved"]_vars

\* a second flood over the tickets of a resolved incident has created an
\* open incident, one incident was closed by the operator while it had
\* tickets and one was resolved by a pop that emptied it
C38_Witness ==
    /\ \E i, j \in DOMAIN incident :
          /\ i < j /\ incident[i].status = "resolved" /\ incident[j].status = "open"
          /\ Members(j) # {}
    /\ \E i \in DOMAIN incident : incident[i].status = "resolved" /\ Members(i) # {}

\* half_open_probes as _get_state reads it: a missing key is 0
half_open_probes == IF cb_probes = None THEN 0 ELSE TheValue(cb_probes)

\* C39: whenever no score_urgency call is in progress, also after calls of
\* several workers that probed a half-open breaker concurrently, the probes
\* counter is at most CIRCUIT_HALF_OPEN_PROBES, and it is 0 if the breaker
\* is closed or open.
C39_ProbesBounded ==
    Quiescent =>
        /\ half_open_probes <= CIRCUIT_HALF_OPEN_PROBES
        /\ cb_state \in {None, Some("closed"), Some("open")} => half_open_probes = 0

\* the counter alone: more probes counted than CIRCUIT_HALF_OPEN_PROBES
C39_ProbesOverCounted == Quiescent /\ half_open_probes > CIRCUIT_HALF_OPEN_PROBES

(***************************************************************************)
(* The breaker under two workers whose score_urgency calls interleave a    *)
(* Redis command at a time, with the workers scheduled: a call in progress *)
(* takes its next step, each worker keeps calling, and the clock moves on. *)
(***************************************************************************)
TwoWorkers == {w \in Workers : w <= 2}

NextRecover ==
    \/ \E w \in TwoWorkers : Start(w, {"general question"}) \/ CallStep(w)
    \/ Tick(CooldownInstants)

SpecRecover ==
    /\ Init /\ [][NextRecover]_vars
    /\ \A w \in TwoWorkers :
          WF_vars(CallStep(w)) /\ WF_vars(Start(w, {"general question"}))
    /\ WF_vars(Tick(CooldownInstants))

\* No call holds the outcome of an invocation that raised or was too slow
NoFailedInvocation == \A w \in Workers : ~InvocationFailed(w)

\* Time has advanced: the breaker is not open with its cooldown still running
CooldownOver ==
    cb_state = Some("open") =>
        clock - (IF cb_opened_at = None THEN 0 ELSE TheValue(cb_opened_at))
            >= CIRCUIT_COOLDOWN_SECONDS

\* state = r.get(CIRCUIT_STATE_KEY) or "closed"
BreakerClosed == cb_state \in {None, Some("closed")}

\* C40: if from some point on no transformer invocation raises or is too
\* slow, while the workers keep calling score_urgency and time keeps
\* advancing past the cooldown of an open breaker, then from some point on
\* the breaker is closed for good, whether the calls come one at a time or
\* from workers running concurrently.
C40_EventuallyClosedForGood ==
    (<>[]NoFailedInvocation /\ []<>CooldownOver) => <>[]BreakerClosed

\* the breaker, opened by one worker's failed invocation, has been closed
\* again by a call that found the probes used up, while the other worker
\* has a call in progress
C40_Witness ==
    /\ cb_state = Some("closed") /\ openedWhen # None
    /\ \E w \in TwoWorkers : Finished(w) /\ wk[w].rd = "half_open" /\ ~InvocationFailed(w)
                             /\ wk[w].probes >= CIRCUIT_HALF_OPEN_PROBES
    /\ \E w \in TwoWorkers : ~Finished(w) /\ wk[w].pc # "idle"
    /\ NoFailedInvocation

====
